---- MODULE Spec2Model ----
(***************************************************************************)
(* AgentsCouncil: the debate orchestrator (app/core/debate_engine.py), the *)
(* background task that runs it and the cancel endpoint                    *)
(* (app/api/debates.py), and the persisted debate record (app/storage.py). *)
(*                                                                         *)
(* One debate is modelled.  The run task advances between the points at    *)
(* which the coroutine can be suspended: the awaits on event emission, on  *)
(* asyncio.gather, on the summarizer and on storage.  The member calls of a*)
(* round are separate tasks that settle one at a time, in any order.       *)
(* Agent outputs are opaque: every outcome of a member call is possible.   *)
(***************************************************************************)
EXTENDS Integers, Sequences, FiniteSets, TLC

\* ---------------------------------------------------------------- bounds
\* Panel size (agents are 1..NumAgents, in panel order).
NumAgents == 2
\* Largest round budget (council.max_rounds) drawn by Init.
MaxBudget == 2
\* Largest number of member calls of one run that fail with a provider
\* error or a timeout (calls of agents without a provider fail besides).
MaxFailures == 1
\* Largest count per vote type, and largest threshold denominator, drawn
\* for the stand-alone evaluation of _check_consensus.
MaxCount == 4
MaxDen == 5
\* Largest number of tokens of a vote reply drawn for the stand-alone
\* evaluation of the vote parser.
MaxTextLen == 5
\* Number of registered event callbacks, and largest number of chunks one
\* member's stream yields, in the stand-alone model of event emission.
NumHandlers == 2
MaxChunks == 2
\* Tool calls a provider makes for one response.
MaxToolCalls == 1

\* Councils and debates of the tables, and the largest council, in the
\* stand-alone model of server start and start_debate.
NumCouncils == 1
NumDebates == 2
MaxMembers == 3

Agents == 1..NumAgents
CouncilIds == 1..NumCouncils
DebateIds == 1..NumDebates

\* consensus_threshold values of the modelled councils, as <<num, den>>.
\* 4/5 is the default 0.8; 1/2 makes a split vote an exact match; 0 is a
\* value the unvalidated float field accepts.
Thresholds == {<<0, 1>>, <<1, 2>>, <<4, 5>>}

\* ---------------------------------------------------------------- enums
AGREE == "agree"
DISAGREE == "disagree"
ABSTAIN == "abstain"
VoteType == {AGREE, DISAGREE, ABSTAIN}

PENDING == "pending"
IN_PROGRESS == "in_progress"
CONSENSUS_REACHED == "consensus_reached"
ROUND_LIMIT_REACHED == "round_limit_reached"
CANCELLED == "cancelled"
ERROR == "error"
DebateStatus ==
    {PENDING, IN_PROGRESS, CONSENSUS_REACHED, ROUND_LIMIT_REACHED, CANCELLED, ERROR}
TerminalStatus == {CONSENSUS_REACHED, ROUND_LIMIT_REACHED, CANCELLED, ERROR}

\* Outcomes of one member call as the agent/provider decides them.
Failures == {"error", "timeout"}
ResponseOutcomes == {"ok"} \cup Failures
VoteOutcomes == VoteType \cup Failures

\* A slot of asyncio.gather(..., return_exceptions=True): not started,
\* still running, an exception object, or a value.
IDLE == "idle"
RUNNING == "running"
EXC == "exc"
NONE == "none"

VARIABLES
    max_rounds,        \* council.max_rounds
    threshold,         \* council.consensus_threshold as <<num, den>>
    providers,         \* agents whose provider is in ProviderRegistry
    failures,          \* member calls that failed with an error or a timeout
    status,            \* engine.debate.status
    current_round,     \* engine.debate.current_round
    rounds,            \* engine.debate.rounds
    summary,           \* engine.debate.summary: NONE or "text"
    error_message,     \* engine.debate.error_message: NONE or what was raised
    completed_at,      \* engine.debate.completed_at is set
    round_result,      \* the DebateRound under construction in _run_round
    responses,         \* gather slots of the response phase, per agent
    vote_results,      \* gather slots of the vote phase, per agent
    vote_events,       \* agents for which a "vote" event was emitted this round
    last_event,        \* the event the run emitted last, as [type, round]
    delivery,          \* which callbacks were called for it, and which one raised
    summarizer_calls,  \* how often run() has called _generate_summary
    pro_points,        \* engine.debate.pro_points: NONE or "points"
    against_points,    \* engine.debate.against_points: NONE or "points"
    pc,                \* position of the background task
    outcome,           \* how run() ended: NONE, "returned", "raised", "cancelled"
    running,           \* debate id is in _running_debates
    stored,            \* the debate row in storage
    task_debate,       \* `debate` local of _run_debate_task's except block
    cancel_pc,         \* position of a cancel_debate request
    cancel_local,      \* `debate` local of the cancel_debate request
    fn_summary,        \* argument of _check_consensus evaluated stand-alone
    fn_threshold,      \* threshold of that evaluation
    fn_result,         \* its result
    fn_pc,             \* "input" until _check_consensus was applied, then "applied"
    response_text,     \* a vote reply (_get_agent_vote.response_text), as tokens
    parsed_vote,       \* `vote` of the AgentResponse _get_agent_vote returns
    parsed_reasoning,  \* `reasoning` of that AgentResponse, as tokens
    parse_pc,          \* "input" until the reply was parsed, then "parsed"
    list_text,         \* a provider reply handed to _parse_list, as tokens
    points,            \* what _parse_list returns for it
    list_pc,           \* "input" until _parse_list was applied, then "parsed"
    event_callbacks,   \* engine._event_callbacks: per callback "sync" or "async"
    emitting,          \* per streaming member: chunks emitted, callback awaited
    bus_log,           \* calls and returns of callbacks, in the order they happen
    round_pc,          \* position of _run_round in the round followed in detail
    thinking_sent,     \* agent_thinking events emitted by the loop of lines 102-107
    call_state,        \* gather slots of the response calls of that round
    full_content,      \* `full_content` of each member's _stream_and_collect_response
    completion_order,  \* the members in the order in which their calls ended
    tool_calls,        \* tool calls a member's provider made for its response
    emitted,           \* the DebateUpdates of that round, in emission order
    round_responses,   \* round_result.responses of that round
    vote_calls,        \* the members whose vote call of that round was started
    sm_debate,         \* the debate _generate_summary is evaluated on, stand-alone
    sm_provider,       \* ModeratorService.provider is not None
    sm_result,         \* the summary and debate.pro_points, debate.against_points
    sm_pc,             \* "input" until _generate_summary was applied, then "applied"
    context,           \* what _build_round_context returns, evaluated stand-alone
    db_councils,       \* the councils table, per council id
    db_debates,        \* the debates table with its rounds, per debate id
    running_debates,   \* keys of _running_debates of the server process
    server_up,         \* the server process runs and its lifespan startup is over
    http_response      \* the reply to the last start_debate request

vars == <<max_rounds, threshold, providers, failures, status, current_round, rounds, summary,
          error_message, completed_at, round_result, responses, vote_results,
          vote_events, last_event, delivery, summarizer_calls, pro_points,
          against_points, pc, outcome, running, stored, task_debate, cancel_pc,
          cancel_local, fn_summary, fn_threshold, fn_result, fn_pc,
          response_text, parsed_vote, parsed_reasoning, parse_pc,
          list_text, points, list_pc,
          event_callbacks, emitting, bus_log, round_pc, thinking_sent, call_state,
          full_content, completion_order, tool_calls, emitted, round_responses,
          vote_calls,
          sm_debate, sm_provider, sm_result, sm_pc, context,
          db_councils, db_debates, running_debates, server_up, http_response>>

summary_vars == <<summarizer_calls, pro_points, against_points>>
engine_vars == <<status, current_round, rounds, summary, error_message,
                 completed_at, round_result, responses, vote_results, vote_events,
                 last_event, delivery, summary_vars>>
council_vars == <<max_rounds, threshold, providers>>
cancel_vars == <<cancel_pc, cancel_local>>
fn_vars == <<fn_summary, fn_threshold, fn_result, fn_pc>>
list_vars == <<list_text, points, list_pc>>
parse_vars == <<response_text, parsed_vote, parsed_reasoning, parse_pc, list_vars>>
\* The variables of the stand-alone evaluations, which no step of a run touches.
round_vars == <<round_pc, thinking_sent, call_state, full_content, completion_order,
                tool_calls, emitted, round_responses, vote_calls>>
bus_vars == <<event_callbacks, emitting, bus_log, round_vars>>
sm_vars == <<sm_debate, sm_provider, sm_result, sm_pc, context>>
api_vars == <<db_councils, db_debates, running_debates, server_up, http_response>>
aux_vars == <<fn_vars, parse_vars, bus_vars, sm_vars, api_vars>>

\* ---------------------------------------------------------------- helpers
\* The agents of a set, in panel order.
RECURSIVE InPanelOrder(_, _)
InPanelOrder(S, from) ==
    IF from > NumAgents THEN <<>>
    ELSE IF from \in S THEN <<from>> \o InPanelOrder(S, from + 1)
    ELSE InPanelOrder(S, from + 1)

\* The DebateUpdate passed to _emit_event: its event_type and the "round"
\* entry of its data (0 for debate_start and debate_complete, which have none).
NoEvent == [type |-> NONE, round |-> 0]

\* _emit_event, lines 43-54: the callbacks are called in the order of their
\* registration and nothing catches what one of them raises, so the loop
\* ends at the callback that raises (raiser; 0: none does).
Handlers == 1..NumHandlers
callbacks_called_all(raiser) == Handlers
callbacks_called(raiser) == IF raiser = 0 THEN Handlers ELSE 1..raiser
Delivery(raiser) == [raised_by |-> raiser, called |-> callbacks_called(raiser)]
NoDelivery == [raised_by |-> 0, called |-> {}]
DebateUpdate(event_type, n) == [type |-> event_type, round |-> n]

AllIdle == [a \in Agents |-> IDLE]
AllRunning == [a \in Agents |-> RUNNING]
NoVotes == [a \in Agents |-> NONE]

\* _check_consensus: total = sum of the counts; False when total == 0;
\* otherwise agree / total >= threshold.  The float comparison is exact for
\* these operands (counts and denominators far below 2^53, IEEE division is
\* correctly rounded and monotone), so it is the rational comparison.
check_consensus_no_guard(vote_summary, thr) ==
    vote_summary.agree * thr[2]
        >= thr[1] * (vote_summary.agree + vote_summary.disagree + vote_summary.abstain)
check_consensus_skip_abstain(vote_summary, thr) ==
    LET total == vote_summary.agree + vote_summary.disagree
    IN IF total = 0 THEN FALSE
       ELSE vote_summary.agree * thr[2] >= thr[1] * total
check_consensus(vote_summary, thr) ==
    LET total == vote_summary.agree + vote_summary.disagree + vote_summary.abstain
    IN IF total = 0 THEN FALSE
       ELSE vote_summary.agree * thr[2] >= thr[1] * total

\* _calculate_vote_summary: count the entries of the vote map by type.
calculate_vote_summary(votes) ==
    [agree    |-> Cardinality({a \in Agents : votes[a] = AGREE}),
     disagree |-> Cardinality({a \in Agents : votes[a] = DISAGREE}),
     abstain  |-> Cardinality({a \in Agents : votes[a] = ABSTAIN})]

\* A fresh DebateRound(round_number=n).  vote_summary is None until the
\* tally is computed at the end of _run_round; the zero record stands for it
\* while the round is under construction.
NoSummary == [agree |-> 0, disagree |-> 0, abstain |-> 0]
DebateRound_zero_based(n) ==
    [round_number |-> n - 1, responses |-> <<>>, votes |-> NoVotes,
     vote_summary |-> NoSummary, consensus_reached |-> FALSE]
DebateRound(n) ==
    [round_number |-> n, responses |-> <<>>, votes |-> NoVotes,
     vote_summary |-> NoSummary, consensus_reached |-> FALSE]

\* An AgentResponse as _stream_and_collect_response returns it (vote and
\* reasoning are attached later); the content is opaque text.  The reasoning
\* is 0 while it is None.
AgentResponse(a) == [agent_id |-> a, vote |-> NONE, reasoning |-> 0]

\* The reasoning of the AgentResponse that _get_agent_vote returns for agent
\* a: opaque text, unlike that of every other agent.
vote_reasoning(a) == a

\* The storage row of the debate; exists = FALSE before the first save.
NoDebate ==
    [exists |-> FALSE, status |-> PENDING, current_round |-> 0, rounds |-> <<>>,
     summary |-> NONE, error_message |-> NONE]

\* engine.debate as Storage.save_debate writes it.
EngineDebate ==
    [exists |-> TRUE, status |-> status, current_round |-> current_round,
     rounds |-> rounds, summary |-> summary, error_message |-> error_message]

\* asyncio.gather(*tasks, return_exceptions=True) returns once no task is
\* still running, whatever each one's outcome.
gather_first_done(slots) == \E a \in Agents : slots[a] # RUNNING
gather_done(slots) == \A a \in Agents : slots[a] # RUNNING

\* With return_exceptions=True gather never raises a member's exception into
\* _run_round: the exception is a result like any other.
gather_raises_first_exception(slots) == \E a \in Agents : slots[a] = EXC
gather_raises(slots) == FALSE

\* A member task that ends fills its own slot; gather neither cancels nor
\* fails the sibling tasks.
gather_settle_cancel_siblings(slots, a, r) ==
    IF r = EXC
    THEN [b \in Agents |-> IF b = a \/ slots[b] = RUNNING THEN EXC ELSE slots[b]]
    ELSE [slots EXCEPT ![a] = r]
gather_settle(slots, a, r) == [slots EXCEPT ![a] = r]

\* _stream_and_collect_response: a missing provider raises ValueError, a
\* timeout raises TimeoutError, a provider error is re-raised; otherwise the
\* AgentResponse is returned.
stream_and_collect_response(a, o) ==
    IF a \notin providers THEN EXC
    ELSE IF o = "ok" THEN "ok" ELSE EXC

\* _get_agent_vote: missing provider, provider error and timeout raise;
\* otherwise the parsed vote is returned.
get_agent_vote(a, o) ==
    IF a \notin providers THEN EXC
    ELSE IF o \in VoteType THEN o ELSE EXC

\* _run_round, lines 117-121: the results that are not exceptions, in the
\* order of the gather slots, which is the panel order.
collected_responses(slots) ==
    LET ok == InPanelOrder({a \in Agents : slots[a] # EXC}, 1)
    IN [i \in 1..Len(ok) |-> AgentResponse(ok[i])]

\* _run_round, lines 139-144: the vote map holds the agents whose vote call
\* did not raise.
collected_votes_abstain_on_error(slots) ==
    [a \in Agents |-> IF slots[a] = EXC THEN ABSTAIN ELSE slots[a]]
collected_votes(slots) ==
    [a \in Agents |-> IF slots[a] = EXC THEN NONE ELSE slots[a]]

\* _run_round, lines 147-150: attach each recorded vote to the response of
\* the same agent, if there is one.
attach_votes_by_position(resps, votes) ==
    [i \in 1..Len(resps) |->
        IF votes[i] = NONE THEN resps[i]
        ELSE [resps[i] EXCEPT !.vote = votes[i], !.reasoning = vote_reasoning(i)]]
attach_votes(resps, votes) ==
    [i \in 1..Len(resps) |->
        IF votes[resps[i].agent_id] = NONE THEN resps[i]
        ELSE [resps[i] EXCEPT !.vote = votes[resps[i].agent_id],
                              !.reasoning = vote_reasoning(resps[i].agent_id)]]

\* run(), lines 61 and 66-68: another round is run unless the round just
\* appended reached consensus (break) or the budget is used up.
loop_continues_no_break(cr, consensus) == cr < max_rounds
loop_continues_one_more(cr, consensus) == ~consensus /\ cr <= max_rounds
loop_continues(cr, consensus) == ~consensus /\ cr < max_rounds

\* run(), lines 66-71: the status after the loop has exited.
status_after_loop_limit_first(cr, consensus) ==
    IF cr >= max_rounds THEN ROUND_LIMIT_REACHED ELSE CONSENSUS_REACHED
status_after_loop(cr, consensus) ==
    IF consensus THEN CONSENSUS_REACHED ELSE ROUND_LIMIT_REACHED

\* No vote reply is being parsed stand-alone.
ListIdle ==
    /\ list_text = <<>>
    /\ points = <<>>
    /\ list_pc = "input"
ParseIdle ==
    /\ response_text = <<>>
    /\ parsed_vote = ABSTAIN
    /\ parsed_reasoning = <<>>
    /\ parse_pc = "input"
    /\ ListIdle

\* _run_round was not entered in the round that is followed in detail.
RoundIdle ==
    /\ round_pc = "start"
    /\ thinking_sent = 0
    /\ call_state = AllIdle
    /\ full_content = [a \in Agents |-> <<>>]
    /\ completion_order = <<>>
    /\ tool_calls = [a \in Agents |-> 0]
    /\ emitted = <<>>
    /\ round_responses = <<>>
    /\ vote_calls = {}

\* No event emission is being followed stand-alone.
BusIdle ==
    /\ event_callbacks = <<>>
    /\ emitting = [a \in Agents |-> [chunks |-> 0, awaiting |-> 0]]
    /\ bus_log = <<>>
    /\ RoundIdle

\* No summary is being generated stand-alone.
NoResult == [summary |-> <<>>, pro_points |-> <<>>, against_points |-> <<>>]
SummaryIdle ==
    /\ sm_debate = [topic |-> "", status |-> PENDING, rounds |-> <<>>]
    /\ sm_provider = FALSE
    /\ sm_result = NoResult
    /\ sm_pc = "input"
    /\ context = <<>>

\* No server process and empty tables.
NoCouncil == [exists |-> FALSE, agents |-> 0]
NoResponse == [status_code |-> 0, council_id |-> 0, debate_id |-> 0]
ApiIdle ==
    /\ db_councils = [c \in CouncilIds |-> NoCouncil]
    /\ db_debates = [d \in DebateIds |-> NoDebate]
    /\ running_debates = {}
    /\ server_up = FALSE
    /\ http_response = NoResponse

\* ---------------------------------------------------------------- Init
Init ==
    /\ max_rounds \in 1..MaxBudget
    /\ threshold \in Thresholds
    /\ providers \in SUBSET Agents
    /\ failures = 0
    /\ status = PENDING
    /\ current_round = 0
    /\ rounds = <<>>
    /\ summary = NONE
    /\ error_message = NONE
    /\ completed_at = FALSE
    /\ round_result = DebateRound(0)
    /\ responses = AllIdle
    /\ vote_results = AllIdle
    /\ vote_events = {}
    /\ last_event = NoEvent
    /\ delivery = NoDelivery
    /\ summarizer_calls = 0
    /\ pro_points = NONE
    /\ against_points = NONE
    /\ pc = "no_debate"
    /\ outcome = NONE
    /\ running = FALSE
    /\ stored = NoDebate
    /\ task_debate = NoDebate
    /\ cancel_pc = "idle"
    /\ cancel_local = NoDebate
    /\ fn_summary = NoSummary
    /\ fn_threshold = <<0, 1>>
    /\ fn_result = FALSE
    /\ fn_pc = "input"
    /\ ParseIdle
    /\ BusIdle
    /\ SummaryIdle
    /\ ApiIdle

\* ---------------------------------------------------------------- run task
\* Positions of the task at which run() is executing.
RunPcs == {"loop", "responses", "votes", "summary", "complete"}

\* start_debate: DebateEngine(council, topic) sets status IN_PROGRESS and
\* current_round 0; the initial record is saved and the task registered.
StartDebate ==
    /\ pc = "no_debate"
    /\ status' = IN_PROGRESS
    /\ stored' = [EngineDebate EXCEPT !.status = IN_PROGRESS]
    /\ running' = TRUE
    /\ pc' = "created"
    /\ UNCHANGED <<current_round, rounds, summary, error_message, completed_at,
                   round_result, responses, vote_results, vote_events, last_event,
                   delivery, summary_vars, outcome, task_debate>>
    /\ UNCHANGED <<council_vars, failures, cancel_vars, aux_vars>>

\* run(), lines 86-90: except Exception sets ERROR and the message and
\* re-raises into _run_debate_task's except block.
RunExcept_swallow(e) ==
    /\ status' = ERROR
    /\ error_message' = e
    /\ outcome' = "returned"
    /\ pc' = "save"
RunExcept(e) ==
    /\ status' = ERROR
    /\ error_message' = e
    /\ outcome' = "raised"
    /\ pc' = "except_get"

\* What the callbacks do with an event: all return, or one of them raises.
Dispatch(sub) ==
    IF sub = "raise"
    THEN \E k \in Handlers : delivery' = Delivery(k)
    ELSE delivery' = Delivery(0)

\* _run_debate_task registers the broadcast callback and calls run(), which
\* emits debate_start and tests the loop condition for the first time.  sub
\* is what the subscribers do with the event.
TaskStart(sub) ==
    /\ pc = "created"
    /\ IF sub = "raise"
       THEN RunExcept("subscriber")
       ELSE /\ IF loop_continues(current_round, FALSE)
               THEN pc' = "loop" /\ UNCHANGED status
               ELSE /\ pc' = "summary"
                    /\ status' = status_after_loop(current_round, FALSE)
            /\ UNCHANGED <<error_message, outcome>>
    /\ last_event' = DebateUpdate("debate_start", 0)
    /\ Dispatch(sub)
    /\ UNCHANGED <<current_round, rounds, summary, completed_at, round_result,
                   responses, vote_results, vote_events, summary_vars, running,
                   stored, task_debate>>
    /\ UNCHANGED <<council_vars, failures, cancel_vars, aux_vars>>

\* run() line 62 and _run_round lines 94-114: increment the counter, emit
\* round_start and one agent_thinking per agent, start every response call.
RoundStart(sub) ==
    /\ pc = "loop"
    /\ current_round' = current_round + 1
    /\ IF sub = "raise"
       THEN /\ RunExcept("subscriber")
            /\ \E t \in {"round_start", "agent_thinking"} :
                   last_event' = DebateUpdate(t, current_round + 1)
            /\ UNCHANGED <<round_result, responses, vote_results, vote_events>>
       ELSE /\ round_result' = DebateRound(current_round + 1)
            /\ responses' = AllRunning
            /\ vote_results' = AllIdle
            /\ vote_events' = {}
            /\ last_event' = DebateUpdate("agent_thinking", current_round + 1)
            /\ pc' = "responses"
            /\ UNCHANGED <<status, error_message, outcome>>
    /\ Dispatch(sub)
    /\ UNCHANGED <<rounds, summary, completed_at, summary_vars, running, stored,
                   task_debate>>
    /\ UNCHANGED <<council_vars, failures, cancel_vars, aux_vars>>

\* What a member call can do: without a provider nothing is sent (one
\* outcome); with one, the provider answers, fails or runs into the timeout.
CallOutcome(a, o) ==
    IF a \notin providers
    THEN o = "error" /\ UNCHANGED failures
    ELSE IF o \in Failures
    THEN failures < MaxFailures /\ failures' = failures + 1
    ELSE UNCHANGED failures

\* Lines 209-237: what a callback raises inside consume_stream leaves
\* wait_for, is re-raised by `except Exception` and ends the member's task.
chunk_callback_raised == EXC

\* consume_stream of member a, which runs as long as the call has not
\* settled and the task tree was not cancelled, gets a chunk and emits
\* agent_response_chunk with the round number its call was started with.
\* sub is what the callbacks do with the event.
StreamChunk(a, sub) ==
    /\ pc \in RunPcs
    /\ responses[a] = RUNNING
    /\ a \in providers
    /\ last_event' = DebateUpdate("agent_response_chunk", round_result.round_number)
    /\ Dispatch(sub)
    /\ IF sub = "raise"
       THEN /\ failures < MaxFailures
            /\ failures' = failures + 1
            /\ responses' = gather_settle(responses, a, chunk_callback_raised)
       ELSE UNCHANGED <<failures, responses>>
    /\ UNCHANGED <<status, current_round, rounds, summary, error_message,
                   completed_at, round_result, vote_results, vote_events,
                   summary_vars>>
    /\ UNCHANGED <<pc, outcome, running, stored, task_debate>>
    /\ UNCHANGED <<council_vars, cancel_vars, aux_vars>>

\* One response call settles with outcome o.
ResponseSettles(a, o) ==
    /\ pc = "responses"
    /\ responses[a] = RUNNING
    /\ CallOutcome(a, o)
    /\ responses' = gather_settle(responses, a, stream_and_collect_response(a, o))
    /\ UNCHANGED <<status, current_round, rounds, summary, error_message,
                   completed_at, round_result, vote_results, vote_events, last_event,
                   delivery, summary_vars>>
    /\ UNCHANGED <<pc, outcome, running, stored, task_debate>>
    /\ UNCHANGED <<council_vars, cancel_vars, aux_vars>>

\* _run_round lines 114-136: gather returns, the successful responses are
\* appended and announced (agent_response), every vote call is started.
ProcessResponses(sub) ==
    /\ pc = "responses"
    /\ gather_done(responses)
    /\ IF gather_raises(responses)
       THEN /\ RunExcept("member")
            /\ UNCHANGED <<round_result, vote_results, last_event, delivery>>
       ELSE IF sub = "raise"
       THEN /\ collected_responses(responses) # <<>>
            /\ RunExcept("subscriber")
            /\ last_event' = DebateUpdate("agent_response", round_result.round_number)
            /\ Dispatch(sub)
            /\ UNCHANGED <<round_result, vote_results>>
       ELSE /\ round_result' =
                 [round_result EXCEPT !.responses = collected_responses(responses)]
            /\ IF collected_responses(responses) # <<>>
               THEN /\ last_event' =
                         DebateUpdate("agent_response", round_result.round_number)
                    /\ Dispatch(sub)
               ELSE UNCHANGED <<last_event, delivery>>
            /\ vote_results' = AllRunning
            /\ pc' = "votes"
            /\ UNCHANGED <<status, error_message, outcome>>
    /\ UNCHANGED <<current_round, rounds, summary, completed_at, responses,
                   vote_events, summary_vars, running, stored, task_debate>>
    /\ UNCHANGED <<council_vars, failures, cancel_vars, aux_vars>>

\* One vote call settles with outcome o.
VoteSettles(a, o) ==
    /\ pc = "votes"
    /\ vote_results[a] = RUNNING
    /\ CallOutcome(a, o)
    /\ vote_results' = gather_settle(vote_results, a, get_agent_vote(a, o))
    /\ UNCHANGED <<status, current_round, rounds, summary, error_message,
                   completed_at, round_result, responses, vote_events, last_event,
                   delivery, summary_vars>>
    /\ UNCHANGED <<pc, outcome, running, stored, task_debate>>
    /\ UNCHANGED <<council_vars, cancel_vars, aux_vars>>

\* _run_round lines 136-169 and run() lines 64-71: gather returns, votes are
\* recorded, attached and announced, the tally and the consensus flag are
\* computed, round_complete is emitted, the round is appended, and the loop
\* either goes on or exits with the final status.
ProcessVotes(sub) ==
    /\ pc = "votes"
    /\ gather_done(vote_results)
    /\ IF gather_raises(vote_results)
       THEN /\ RunExcept("member")
            /\ UNCHANGED <<round_result, rounds, vote_events, last_event, delivery>>
       ELSE IF sub = "raise"
       THEN /\ RunExcept("subscriber")
            /\ Dispatch(sub)
            /\ \E t \in {"vote", "round_complete"} :
                   /\ t = "vote" => \E a \in Agents : vote_results[a] # EXC
                   /\ last_event' = DebateUpdate(t, round_result.round_number)
            /\ UNCHANGED <<round_result, rounds, vote_events>>
       ELSE LET votes == collected_votes(vote_results)
                tally == calculate_vote_summary(votes)
                consensus == check_consensus(tally, threshold)
                done == [round_result EXCEPT
                            !.votes = votes,
                            !.responses = attach_votes(round_result.responses, votes),
                            !.vote_summary = tally,
                            !.consensus_reached = consensus]
            IN /\ round_result' = done
               /\ vote_events' = {a \in Agents : vote_results[a] # EXC}
               /\ rounds' = Append(rounds, done)
               /\ last_event' = DebateUpdate("round_complete", round_result.round_number)
               /\ Dispatch(sub)
               /\ IF loop_continues(current_round, consensus)
                  THEN /\ pc' = "loop"
                       /\ UNCHANGED status
                  ELSE /\ pc' = "summary"
                       /\ status' = status_after_loop(current_round, consensus)
               /\ UNCHANGED <<error_message, outcome>>
    /\ UNCHANGED <<current_round, summary, completed_at, responses, vote_results,
                   summary_vars, running, stored, task_debate>>
    /\ UNCHANGED <<council_vars, failures, cancel_vars, aux_vars>>

\* run() line 75: the timestamp is set once _generate_summary has returned
\* and its result was assigned.
completed_at_before_summary(returned) == TRUE
completed_at_after_summary(returned) == returned

\* _generate_summary, lines 346-351: the three moderator calls in their
\* order; debate.pro_points is assigned when the second has returned,
\* debate.against_points when the third has.
SummarizerStages == <<"summary", "pro_points", "against_points">>
stage_index(stage) == CHOOSE i \in 1..Len(SummarizerStages) : SummarizerStages[i] = stage
assigned_before(raising, field) == stage_index(field) < stage_index(raising)

\* run() lines 74-75: _generate_summary calls the moderator, whose provider
\* calls may raise; on success the summary and the timestamp are set.
GenerateSummary(res) ==
    /\ pc = "summary"
    /\ summarizer_calls' = summarizer_calls + 1
    /\ IF res = "raise"
       THEN /\ RunExcept("summarizer")
            /\ \E raising \in {SummarizerStages[i] : i \in 1..Len(SummarizerStages)} :
                   /\ pro_points' = IF assigned_before(raising, "pro_points")
                                    THEN "points" ELSE pro_points
                   /\ against_points' = IF assigned_before(raising, "against_points")
                                        THEN "points" ELSE against_points
            /\ UNCHANGED summary
       ELSE /\ pro_points' = "points"
            /\ against_points' = "points"
            /\ summary' = "text"
            /\ pc' = "complete"
            /\ UNCHANGED <<status, error_message, outcome>>
    /\ completed_at' = completed_at_after_summary(res = "ok")
    /\ UNCHANGED <<current_round, rounds, round_result, responses, vote_results,
                   vote_events, last_event, delivery, running, stored, task_debate>>
    /\ UNCHANGED <<council_vars, failures, cancel_vars, aux_vars>>

\* run() lines 77-84: emit debate_complete and return the debate.
EmitDebateComplete(sub) ==
    /\ pc = "complete"
    /\ IF sub = "raise"
       THEN RunExcept("subscriber")
       ELSE /\ outcome' = "returned"
            /\ pc' = "save"
            /\ UNCHANGED <<status, error_message>>
    /\ last_event' = DebateUpdate("debate_complete", 0)
    /\ Dispatch(sub)
    /\ UNCHANGED <<current_round, rounds, summary, completed_at, round_result,
                   responses, vote_results, vote_events, summary_vars, running,
                   stored, task_debate>>
    /\ UNCHANGED <<council_vars, failures, cancel_vars, aux_vars>>

\* _run_debate_task lines 33-34 and 45: save the returned debate, then the
\* finally block removes the task from _running_debates.
SaveResult ==
    /\ pc = "save"
    /\ stored' = EngineDebate
    /\ running' = FALSE
    /\ pc' = "done"
    /\ UNCHANGED <<engine_vars, outcome, task_debate>>
    /\ UNCHANGED <<council_vars, failures, cancel_vars, aux_vars>>

\* _run_debate_task line 39: the except block reads the stored debate.
ExceptGet ==
    /\ pc = "except_get"
    /\ task_debate' = stored
    /\ pc' = "except_save"
    /\ UNCHANGED <<engine_vars, outcome, running, stored>>
    /\ UNCHANGED <<council_vars, failures, cancel_vars, aux_vars>>

\* _run_debate_task lines 40-45: mark the stored debate ERROR and save it.
ExceptSave ==
    /\ pc = "except_save"
    /\ stored' = IF task_debate.exists
                 THEN [task_debate EXCEPT !.status = ERROR, !.error_message = error_message]
                 ELSE stored
    /\ running' = FALSE
    /\ pc' = "done"
    /\ UNCHANGED <<engine_vars, outcome, task_debate>>
    /\ UNCHANGED <<council_vars, failures, cancel_vars, aux_vars>>

\* ---------------------------------------------------------------- cancel
\* cancel_debate line 122-124: read the stored debate; 404 if there is none.
CancelGet ==
    /\ cancel_pc = "idle"
    /\ cancel_local' = stored
    /\ cancel_pc' = IF stored.exists THEN "got" ELSE "not_found"
    /\ UNCHANGED <<engine_vars, pc, outcome, running, stored, task_debate>>
    /\ UNCHANGED <<council_vars, failures, aux_vars>>

\* cancel_debate lines 126-130: cancel and unregister the task if it is
\* registered, then set CANCELLED on the debate that was read.  The
\* cancelled task gets CancelledError at the await it is suspended on;
\* CancelledError is not an Exception, so neither run()'s nor the task's
\* except block runs, and the task ends without another write
\* (task_after_cancel: wherever the task was, it is over).
task_after_cancel_ignored(p) == p
task_after_cancel(p) == "done"
CancelApply ==
    /\ cancel_pc = "got"
    /\ IF running
       THEN /\ pc' = task_after_cancel(pc)
            /\ outcome' = IF pc \in RunPcs THEN "cancelled" ELSE outcome
       ELSE UNCHANGED <<pc, outcome>>
    /\ running' = FALSE
    /\ cancel_local' = [cancel_local EXCEPT !.status = CANCELLED]
    /\ cancel_pc' = "save"
    /\ UNCHANGED <<engine_vars, stored, task_debate>>
    /\ UNCHANGED <<council_vars, failures, aux_vars>>

\* cancel_debate line 131: save the debate that was read.
CancelSave ==
    /\ cancel_pc = "save"
    /\ stored' = cancel_local
    /\ cancel_pc' = "done"
    /\ UNCHANGED <<engine_vars, pc, outcome, running, task_debate, cancel_local>>
    /\ UNCHANGED <<council_vars, failures, aux_vars>>

Subscriber == {"ok", "raise"}

Next ==
    \/ StartDebate
    \/ \E sub \in Subscriber : TaskStart(sub)
    \/ \E sub \in Subscriber : RoundStart(sub)
    \/ \E a \in Agents, sub \in Subscriber : StreamChunk(a, sub)
    \/ \E a \in Agents, o \in ResponseOutcomes : ResponseSettles(a, o)
    \/ \E sub \in Subscriber : ProcessResponses(sub)
    \/ \E a \in Agents, o \in VoteOutcomes : VoteSettles(a, o)
    \/ \E sub \in Subscriber : ProcessVotes(sub)
    \/ \E res \in Subscriber : GenerateSummary(res)
    \/ \E sub \in Subscriber : EmitDebateComplete(sub)
    \/ SaveResult
    \/ ExceptGet
    \/ ExceptSave
    \/ CancelGet
    \/ CancelApply
    \/ CancelSave

Spec == Init /\ [][Next]_vars

\* ------------------------------------------- _check_consensus, stand-alone
FnSummaries ==
    [agree : 0..MaxCount, disagree : 0..MaxCount, abstain : 0..MaxCount]
FnThresholds == {t \in (0..(MaxDen + 1)) \X (1..MaxDen) : TRUE}

InitConsensus ==
    /\ max_rounds = 1
    /\ threshold = <<4, 5>>
    /\ providers = Agents
    /\ failures = 0
    /\ status = PENDING
    /\ current_round = 0
    /\ rounds = <<>>
    /\ summary = NONE
    /\ error_message = NONE
    /\ completed_at = FALSE
    /\ round_result = DebateRound(0)
    /\ responses = AllIdle
    /\ vote_results = AllIdle
    /\ vote_events = {}
    /\ last_event = NoEvent
    /\ delivery = NoDelivery
    /\ summarizer_calls = 0
    /\ pro_points = NONE
    /\ against_points = NONE
    /\ pc = "no_debate"
    /\ outcome = NONE
    /\ running = FALSE
    /\ stored = NoDebate
    /\ task_debate = NoDebate
    /\ cancel_pc = "idle"
    /\ cancel_local = NoDebate
    /\ fn_summary \in FnSummaries
    /\ fn_threshold \in FnThresholds
    /\ fn_result = FALSE
    /\ fn_pc = "input"
    /\ ParseIdle
    /\ BusIdle
    /\ SummaryIdle
    /\ ApiIdle

\* engine._check_consensus(vote_summary) on a council with that threshold.
ApplyCheckConsensus ==
    /\ fn_pc = "input"
    /\ fn_result' = check_consensus(fn_summary, fn_threshold)
    /\ fn_pc' = "applied"
    /\ UNCHANGED <<fn_summary, fn_threshold, parse_vars, bus_vars>>
    /\ UNCHANGED <<council_vars, failures, engine_vars, pc, outcome, running,
                   stored, task_debate, cancel_vars, sm_vars, api_vars>>

NextConsensus == ApplyCheckConsensus

SpecConsensus == InitConsensus /\ [][NextConsensus]_vars

\* ------------------------------------------------- vote parsing, stand-alone
\* A vote reply is a sequence of tokens, each standing for the characters it
\* spells.  No marker or vote word can arise across a token boundary: no
\* token ends in a proper prefix of "VOTE:", "REASONING:", "AGREE" or
\* "DISAGREE" that the next one completes.  So the string operations of
\* _get_agent_vote act on tokens exactly as on the characters.
VOTE_MARK == "VOTE:"
REASONING_MARK == "REASONING:"
NEWLINE == "\n"
Tokens == {VOTE_MARK, REASONING_MARK, "DISAGREE", "AGREE", "agree", NEWLINE, " ", "x"}
Whitespace == {NEWLINE, " "}
Texts == UNION {[1..n -> Tokens] : n \in 0..MaxTextLen}

\* str.upper(), token by token.
upper_token(t) == IF t = "agree" THEN "AGREE" ELSE IF t = "x" THEN "X" ELSE t
upper(text) == [i \in 1..Len(text) |-> upper_token(text[i])]

\* `sub in text` for the substrings the parser looks for: "AGREE" is also a
\* substring of the token "DISAGREE".
token_has(t, sub) == t = sub \/ (sub = "AGREE" /\ t = "DISAGREE")
str_in(sub, text) == \E i \in 1..Len(text) : token_has(text[i], sub)

\* str.find(sep) + 1: the position of the first sep, 0 if there is none.
find(text, sep) ==
    IF \E i \in 1..Len(text) : text[i] = sep
    THEN CHOOSE i \in 1..Len(text) :
             text[i] = sep /\ \A j \in 1..(i - 1) : text[j] # sep
    ELSE 0

\* text[i:]: what follows position i.
after(text, i) == SubSeq(text, i + 1, Len(text))

\* text.split(sep)[0]: what precedes the first sep, or the whole text.
split_0(text, sep) ==
    IF find(text, sep) = 0 THEN text ELSE SubSeq(text, 1, find(text, sep) - 1)

\* text.split(sep)[1], for a text that contains sep: split cuts at EVERY
\* sep, so element 1 is what lies between the first sep and the second one
\* (or the end of the text).
split_1(text, sep) == split_0(after(text, find(text, sep)), sep)

\* str.strip(): drop leading and trailing whitespace.
strip(text) ==
    LET keep == {i \in 1..Len(text) : text[i] \notin Whitespace}
    IN IF keep = {} THEN <<>>
       ELSE SubSeq(text, CHOOSE i \in keep : \A j \in keep : i <= j,
                         CHOOSE i \in keep : \A j \in keep : i >= j)

\* Lines 302-305: DISAGREE is looked for first, then AGREE.
vote_of_line(vote_line) ==
    IF str_in("DISAGREE", vote_line) THEN DISAGREE
    ELSE IF str_in("AGREE", vote_line) THEN AGREE
    ELSE ABSTAIN

\* Lines 296 and 299-305: ABSTAIN unless the reply has a VOTE: marker and
\* its vote line names a vote.
parse_vote_marker_optional(text) == vote_of_line(upper(text))
parse_vote(text) ==
    IF str_in(VOTE_MARK, text)
    THEN vote_of_line(upper(strip(split_0(split_1(text, VOTE_MARK), NEWLINE))))
    ELSE ABSTAIN

\* Lines 297 and 307-308: the raw reply unless it has a REASONING: marker.
parse_reasoning(text) ==
    IF str_in(REASONING_MARK, text)
    THEN strip(split_1(text, REASONING_MARK))
    ELSE text

\* No run and no request: the state in which the stand-alone evaluations
\* take place.
RunIdle ==
    /\ max_rounds = 1
    /\ threshold = <<4, 5>>
    /\ providers = Agents
    /\ failures = 0
    /\ status = PENDING
    /\ current_round = 0
    /\ rounds = <<>>
    /\ summary = NONE
    /\ error_message = NONE
    /\ completed_at = FALSE
    /\ round_result = DebateRound(0)
    /\ responses = AllIdle
    /\ vote_results = AllIdle
    /\ vote_events = {}
    /\ last_event = NoEvent
    /\ delivery = NoDelivery
    /\ summarizer_calls = 0
    /\ pro_points = NONE
    /\ against_points = NONE
    /\ pc = "no_debate"
    /\ outcome = NONE
    /\ running = FALSE
    /\ stored = NoDebate
    /\ task_debate = NoDebate
    /\ cancel_pc = "idle"
    /\ cancel_local = NoDebate
FnIdle ==
    /\ fn_summary = NoSummary
    /\ fn_threshold = <<0, 1>>
    /\ fn_result = FALSE
    /\ fn_pc = "input"

InitVote ==
    /\ RunIdle
    /\ FnIdle
    /\ response_text \in Texts
    /\ parsed_vote = ABSTAIN
    /\ parsed_reasoning = <<>>
    /\ parse_pc = "input"
    /\ ListIdle
    /\ BusIdle
    /\ SummaryIdle
    /\ ApiIdle

\* _get_agent_vote lines 295-318 on the reply response_text.
ParseVote ==
    /\ parse_pc = "input"
    /\ parsed_vote' = parse_vote(response_text)
    /\ parsed_reasoning' = parse_reasoning(response_text)
    /\ parse_pc' = "parsed"
    /\ UNCHANGED <<response_text, list_vars, fn_vars, bus_vars>>
    /\ UNCHANGED <<council_vars, failures, engine_vars, pc, outcome, running,
                   stored, task_debate, cancel_vars, sm_vars, api_vars>>

NextVote == ParseVote

SpecVote == InitVote /\ [][NextVote]_vars

\* ---------------------------------------------------------------- _parse_list
\* A reply to extract_pro_points / extract_against_points is a text of up to
\* MaxLines lines.  Line i is one of the shapes below around its own word, so
\* that the order of the returned items can be told; the tokens are the
\* markers, the blank and the words, and no word starts with a marker.
MaxLines == 6
Words == <<"a", "b", "c", "d", "e", "f", "g", "h">>
LineShapes(i) ==
    { <<" ">>,                               \* a blank line
      <<Words[i]>>,                          \* no marker
      <<"1.", " ", Words[i]>>,               \* "1. a"
      <<"6.", " ", Words[i]>>,               \* "6. a"
      <<" ", "-", " ">>,                     \* a marker and nothing else
      <<" ", "*", " ", Words[i], " ">> }     \* "  * a  "
\* The texts of n lines, line i in one of its shapes, joined by newlines.
RECURSIVE TextsOfLines(_)
TextsOfLines(n) ==
    IF n = 0 THEN {<<>>}
    ELSE IF n = 1 THEN LineShapes(1)
    ELSE {t \o <<NEWLINE>> \o l : t \in TextsOfLines(n - 1), l \in LineShapes(n)}
ListTexts(max) == UNION {TextsOfLines(n) : n \in 0..max}

\* str.split(sep): cuts at every sep; the empty text gives one empty piece.
RECURSIVE split(_, _)
split(text, sep) ==
    IF find(text, sep) = 0 THEN <<text>>
    ELSE <<split_0(text, sep)>> \o split(after(text, find(text, sep)), sep)

\* Line 144: the prefixes the loop tries, in its order.  BULLET stands for
\* the eighth string of that list, a bullet character as the file spells it.
BULLET == "bullet"
prefixes == <<"1.", "2.", "3.", "4.", "5.", "-", "*", BULLET>>
startswith(text, prefix) == text # <<>> /\ text[1] = prefix

\* Lines 142-148 for one line: strip, cut the first prefix of the loop the
\* line starts with, strip again.
clean_line(line) ==
    LET cleaned == strip(line)
        hits == {k \in 1..Len(prefixes) : startswith(cleaned, prefixes[k])}
    IN IF cleaned = <<>> \/ hits = {} THEN cleaned
       ELSE strip(Tail(cleaned))

\* Lines 138-153: the cleaned lines that are not empty, the first 5 of them.
parse_list(text) ==
    LET lines == split(strip(text), NEWLINE)
        cleaned == [i \in 1..Len(lines) |-> clean_line(lines[i])]
        kept == SelectSeq(cleaned, LAMBDA c : c # <<>>)
    IN SubSeq(kept, 1, IF Len(kept) < 5 THEN Len(kept) ELSE 5)

InitList ==
    /\ RunIdle
    /\ FnIdle
    /\ response_text = <<>>
    /\ parsed_vote = ABSTAIN
    /\ parsed_reasoning = <<>>
    /\ parse_pc = "input"
    /\ points = <<>>
    /\ list_pc = "input"
    /\ BusIdle
    /\ SummaryIdle
    /\ ApiIdle
    /\ list_text \in ListTexts(MaxLines)

\* _parse_list on the reply list_text.
ParseList ==
    /\ list_pc = "input"
    /\ points' = parse_list(list_text)
    /\ list_pc' = "parsed"
    /\ UNCHANGED <<list_text, response_text, parsed_vote, parsed_reasoning, parse_pc,
                   fn_vars, bus_vars>>
    /\ UNCHANGED <<council_vars, failures, engine_vars, pc, outcome, running,
                   stored, task_debate, cancel_vars, sm_vars, api_vars>>

NextList == ParseList

SpecList == InitList /\ [][NextList]_vars

\* ------------------------------------------------ event emission, stand-alone
\* The response phase of one round: every member's consume_stream runs as
\* its own task and calls _emit_event("agent_response_chunk", ...) for each
\* chunk; run() itself is suspended in gather.  The event loop runs one task
\* at a time, from the point where it was suspended to its next suspension
\* point.  _emit_event calls the callbacks in registration order; a plain
\* callback runs to its end, `await callback(update)` of a coroutine
\* function may suspend the emitting task inside the callback (the
\* registered broadcast_debate_update awaits a websocket send).
CallbackKinds == {"sync", "async"}
call(a, n, k) == [op |-> "call", agent_id |-> a, chunk |-> n, callback |-> k]
ret(a, n, k) == [op |-> "ret", agent_id |-> a, chunk |-> n, callback |-> k]

\* The loop of _emit_event from callback `from` on, for chunk n of member a,
\* up to the callback `stop` in which the task is suspended (0: in none, the
\* loop runs to its end).
RECURSIVE emit_event(_, _, _, _)
emit_event(a, n, from, stop) ==
    IF from > NumHandlers THEN <<>>
    ELSE IF from = stop THEN <<call(a, n, from)>>
    ELSE <<call(a, n, from), ret(a, n, from)>> \o emit_event(a, n, from + 1, stop)

\* council.agents in panel order.  Ids, names, roles and providers are
\* opaque values, different for every member, so that a response filed under
\* another member is told apart.
AgentConfig(a) ==
    [id |-> a, name |-> <<"name", a>>, role |-> <<"role", a>>,
     provider |-> <<"provider", a>>]

\* The n-th chunk the provider of member a yields, an opaque piece of text
\* unlike every other chunk, and the text of the first n chunks.
chunk(a, n) == <<a, n>>
chunks_upto(a, n) == [i \in 1..n |-> chunk(a, i)]

\* A DebateUpdate of the round: its event_type, the "agent_id" of its data
\* (0 for round_start) and the text it carries: "full_content_so_far" of
\* agent_response_chunk, "content" of agent_response.
update(event_type, a, text) == [type |-> event_type, agent_id |-> a, content |-> text]

\* consume_stream, line 215: `full_content += chunk` on the variable of the
\* enclosing call of member a; every call has its own.
full_content_shared(fc, a, c) == [b \in Agents |-> fc[b] \o <<c>>]
full_content_after(fc, a, c) == [fc EXCEPT ![a] = @ \o <<c>>]

\* _stream_and_collect_response, lines 239-245: the AgentResponse of member
\* a with the collected text.
stream_response(a, text) ==
    [agent_id |-> AgentConfig(a).id, agent_name |-> AgentConfig(a).name,
     role |-> AgentConfig(a).role, provider |-> AgentConfig(a).provider,
     content |-> text]

\* _run_round, lines 114-121: gather returns the results in the order of
\* the tasks, which is the panel order; the exceptions are skipped.
gathered_in_completion_order(slots, fc) ==
    LET ok == SelectSeq(completion_order, LAMBDA a : slots[a] = "ok")
    IN [i \in 1..Len(ok) |-> stream_response(ok[i], fc[ok[i]])]
gathered_responses(slots, fc) ==
    LET ok == InPanelOrder({a \in Agents : slots[a] = "ok"}, 1)
    IN [i \in 1..Len(ok) |-> stream_response(ok[i], fc[ok[i]])]

\* _run_round, lines 122-129: one agent_response per appended response.
response_events(resps) ==
    [i \in 1..Len(resps) |-> update("agent_response", resps[i].agent_id, resps[i].content)]

\* _run_round, lines 102-107: the loop over council.agents has emitted
\* agent_thinking for n members.
thinking_loop_done_after_first(n) == n >= 1
thinking_loop_done(n) == n = NumAgents

InitBus ==
    /\ RunIdle
    /\ FnIdle
    /\ ParseIdle
    /\ event_callbacks \in [Handlers -> CallbackKinds]
    /\ emitting = [a \in Agents |-> [chunks |-> 0, awaiting |-> 0]]
    /\ bus_log = <<>>
    /\ RoundIdle
    /\ SummaryIdle
    /\ ApiIdle

\* _run_round, line 94: round_start is emitted.
BeginRound ==
    /\ round_pc = "start"
    /\ emitted' = Append(emitted, update("round_start", 0, <<>>))
    /\ round_pc' = "thinking"
    /\ UNCHANGED <<thinking_sent, call_state, full_content, completion_order,
                   tool_calls, round_responses, vote_calls>>
    /\ UNCHANGED <<event_callbacks, emitting, bus_log, fn_vars, parse_vars>>
    /\ UNCHANGED <<council_vars, failures, engine_vars, pc, outcome, running,
                   stored, task_debate, cancel_vars, sm_vars, api_vars>>

\* _run_round, lines 102-113: agent_thinking is emitted for the next member
\* of the panel; after the last one the response tasks are created, each
\* call starting with an empty full_content (line 207).
EmitThinking ==
    /\ round_pc = "thinking"
    /\ emitted' = Append(emitted, update("agent_thinking", thinking_sent + 1, <<>>))
    /\ thinking_sent' = thinking_sent + 1
    /\ IF thinking_loop_done(thinking_sent + 1)
       THEN /\ call_state' = AllRunning
            /\ full_content' = [a \in Agents |-> <<>>]
            /\ round_pc' = "streaming"
       ELSE UNCHANGED <<call_state, full_content, round_pc>>
    /\ UNCHANGED <<completion_order, tool_calls, round_responses, vote_calls>>
    /\ UNCHANGED <<event_callbacks, emitting, bus_log, fn_vars, parse_vars>>
    /\ UNCHANGED <<council_vars, failures, engine_vars, pc, outcome, running,
                   stored, task_debate, cancel_vars, sm_vars, api_vars>>

\* consume_stream of member a gets its next chunk, adds it to full_content
\* and emits the event, until the task is suspended in callback `stop` or
\* the event is emitted.
EmitChunk(a, stop) ==
    /\ call_state[a] = RUNNING
    /\ emitting[a].awaiting = 0
    /\ emitting[a].chunks < MaxChunks
    /\ stop \in Handlers => event_callbacks[stop] = "async"
    /\ LET n == emitting[a].chunks + 1
           fc == full_content_after(full_content, a, chunk(a, n))
       IN /\ full_content' = fc
          /\ emitted' = Append(emitted, update("agent_response_chunk", a, fc[a]))
          /\ bus_log' = bus_log \o emit_event(a, n, 1, stop)
          /\ emitting' = [emitting EXCEPT ![a] = [chunks |-> n, awaiting |-> stop]]
    /\ UNCHANGED <<round_pc, thinking_sent, call_state, completion_order,
                   tool_calls, round_responses, vote_calls>>
    /\ UNCHANGED <<event_callbacks, fn_vars, parse_vars>>
    /\ UNCHANGED <<council_vars, failures, engine_vars, pc, outcome, running,
                   stored, task_debate, cancel_vars, sm_vars, api_vars>>

\* The callback member a's task is suspended in returns; the loop of
\* _emit_event goes on with the next callbacks.
ResumeEmit(a, stop) ==
    /\ call_state[a] = RUNNING
    /\ emitting[a].awaiting # 0
    /\ stop \in Handlers => stop > emitting[a].awaiting /\ event_callbacks[stop] = "async"
    /\ bus_log' = bus_log \o <<ret(a, emitting[a].chunks, emitting[a].awaiting)>>
                          \o emit_event(a, emitting[a].chunks,
                                        emitting[a].awaiting + 1, stop)
    /\ emitting' = [emitting EXCEPT ![a].awaiting = stop]
    /\ UNCHANGED <<event_callbacks, round_vars, fn_vars, parse_vars>>
    /\ UNCHANGED <<council_vars, failures, engine_vars, pc, outcome, running,
                   stored, task_debate, cancel_vars, sm_vars, api_vars>>

\* The call of member a ends, lines 230-245.  The stream is exhausted or the
\* provider raises while consume_stream waits for the next chunk; the
\* timeout of wait_for cancels consume_stream wherever it is suspended.  k
\* is the number of tool calls the provider made for the response; no part
\* of the provider interface hands them to the engine.
StreamEnds(a, o, k) ==
    /\ call_state[a] = RUNNING
    /\ o \in {"ok", "error"} => emitting[a].awaiting = 0
    /\ o # "ok" => k = 0
    /\ call_state' = gather_settle(call_state, a, stream_and_collect_response(a, o))
    /\ completion_order' = Append(completion_order, a)
    /\ tool_calls' = [tool_calls EXCEPT ![a] = k]
    /\ UNCHANGED <<round_pc, thinking_sent, full_content, emitted, round_responses,
                   vote_calls>>
    /\ UNCHANGED <<event_callbacks, emitting, bus_log, fn_vars, parse_vars>>
    /\ UNCHANGED <<council_vars, failures, engine_vars, pc, outcome, running,
                   stored, task_debate, cancel_vars, sm_vars, api_vars>>

\* _run_round, lines 132-135: one vote task per member of council.agents,
\* whatever became of the member's response call.
vote_tasks_of_responders(slots) == {a \in Agents : slots[a] = "ok"}
vote_tasks(slots) == Agents

\* _run_round, lines 114-135: gather returns, the successful responses are
\* appended to the round and agent_response is emitted for each; then the
\* vote calls are started.
CollectResponses ==
    /\ round_pc = "streaming"
    /\ gather_done(call_state)
    /\ round_responses' = gathered_responses(call_state, full_content)
    /\ emitted' = emitted \o response_events(gathered_responses(call_state, full_content))
    /\ vote_calls' = vote_tasks(call_state)
    /\ round_pc' = "collected"
    /\ UNCHANGED <<thinking_sent, call_state, full_content, completion_order, tool_calls>>
    /\ UNCHANGED <<event_callbacks, emitting, bus_log, fn_vars, parse_vars>>
    /\ UNCHANGED <<council_vars, failures, engine_vars, pc, outcome, running,
                   stored, task_debate, cancel_vars, sm_vars, api_vars>>


\* ------------------------------------------------ the summarizer, stand-alone
\* _generate_summary on a debate whose loop is over: the status is one of
\* the two run() sets at lines 70-71, every round has its tally.
Topics == {"topic A", "topic B"}
Tallies == {calculate_vote_summary(v) : v \in [Agents -> VoteType \cup {NONE}]}
\* The tallies of the rounds in which all members cast the same vote.
UnanimousTallies == {calculate_vote_summary([a \in Agents |-> v]) : v \in VoteType}
SummaryRounds ==
    UNION {{[i \in 1..n |-> [DebateRound(i) EXCEPT !.vote_summary = t[i]]] :
               t \in [1..n -> Tallies]} : n \in 1..MaxBudget}
\* What a provider can answer: opaque text, and a parsed list of points.
GeneratedTexts == {<<<<"line", "generated">>>>}
Points == {<<>>, <<"point">>}

\* _fallback_summary, lines 157-163: one line per round of debate.rounds,
\* with the round number and the three counts of its vote_summary.
round_line(r) ==
    <<"round", r.round_number, r.vote_summary.agree, r.vote_summary.disagree,
      r.vote_summary.abstain>>
rounds_summary_last_only(rs) == <<round_line(rs[Len(rs)])>>
rounds_summary(rs) == [i \in 1..Len(rs) |-> round_line(rs[i])]

\* _fallback_summary, lines 165-178: the text, line by line.
fallback_summary(debate) ==
    <<<<"line", "# Debate Summary">>,
      <<"line", "## Topic">>, <<"line", debate.topic>>,
      <<"line", "## Status">>, <<"line", debate.status>>,
      <<"line", "## Rounds">>>>
    \o rounds_summary(debate.rounds)
    \o <<<<"line", "## Note">>,
         <<"line", "Detailed AI summary not available (no AI provider configured for moderation).">>>>

InitSummary ==
    /\ RunIdle
    /\ FnIdle
    /\ ParseIdle
    /\ BusIdle
    /\ ApiIdle
    /\ sm_debate \in [topic : Topics, status : {CONSENSUS_REACHED, ROUND_LIMIT_REACHED},
                      rounds : SummaryRounds]
    /\ sm_provider \in BOOLEAN
    /\ sm_result = NoResult
    /\ sm_pc = "input"
    /\ context = <<>>

\* DebateEngine._generate_summary, lines 346-351, with ModeratorService
\* generate_summary, extract_pro_points and extract_against_points: without
\* a provider the fallback text and two empty lists, with one what the
\* provider answers (text, pros, cons).
ApplyGenerateSummary(text, pros, cons) ==
    /\ sm_pc = "input"
    /\ IF sm_provider
       THEN sm_result' = [summary |-> text, pro_points |-> pros, against_points |-> cons]
       ELSE /\ pros = <<>> /\ cons = <<>>
            /\ sm_result' = [summary |-> fallback_summary(sm_debate),
                             pro_points |-> <<>>, against_points |-> <<>>]
    /\ sm_pc' = "applied"
    /\ UNCHANGED <<sm_debate, sm_provider, context, fn_vars, parse_vars, bus_vars, api_vars>>
    /\ UNCHANGED <<council_vars, failures, engine_vars, pc, outcome, running,
                   stored, task_debate, cancel_vars>>

NextSummary ==
    \E text \in GeneratedTexts, pros \in Points, cons \in Points :
        ApplyGenerateSummary(text, pros, cons)

SpecSummary == InitSummary /\ [][NextSummary]_vars

\* --------------------------------------------- the round context, stand-alone
\* _build_round_context for the round after the stored ones.  A stored round
\* has the responses of some of the members, in panel order, each with a
\* text of its own, and its tally.
MaxPrior == 2
ContextRound(i, S, t) ==
    LET ok == InPanelOrder(S, 1)
    IN [DebateRound(i) EXCEPT
           !.responses = [j \in 1..Len(ok) |-> stream_response(ok[j], <<chunk(ok[j], i)>>)],
           !.vote_summary = t]
ContextRounds(max) ==
    UNION {{[i \in 1..n |-> ContextRound(i, S[i], t[i])] :
               S \in [1..n -> SUBSET Agents], t \in [1..n -> UnanimousTallies]} :
           n \in 0..max}

\* Lines 178-185: the parts appended for one stored round: its header, its
\* responses in list order with name, role and content, and its tally
\* (vote_summary is a dict of three keys once the round is stored, so the
\* test of line 184 holds).
round_parts(r) ==
    <<<<"round", r.round_number>>>>
    \o [j \in 1..Len(r.responses) |->
           <<"response", r.responses[j].agent_name, r.responses[j].role,
             r.responses[j].content>>]
    \o <<<<"votes", r.vote_summary>>>>

RECURSIVE rounds_parts(_, _)
rounds_parts(rs, from) ==
    IF from > Len(rs) THEN <<>>
    ELSE round_parts(rs[from]) \o rounds_parts(rs, from + 1)

\* _build_round_context, lines 172-187, as the list of the parts it joins.
build_round_context_last_only(debate, n) ==
    IF n = 1 THEN <<<<"first round", debate.topic>>>>
    ELSE <<<<"topic", debate.topic>>>> \o round_parts(debate.rounds[Len(debate.rounds)])
build_round_context(debate, n) ==
    IF n = 1 THEN <<<<"first round", debate.topic>>>>
    ELSE <<<<"topic", debate.topic>>>> \o rounds_parts(debate.rounds, 1)

InitContext ==
    /\ RunIdle
    /\ FnIdle
    /\ ParseIdle
    /\ BusIdle
    /\ ApiIdle
    /\ sm_debate \in [topic : Topics, status : {IN_PROGRESS}, rounds : ContextRounds(MaxPrior)]
    /\ sm_provider = FALSE
    /\ sm_result = NoResult
    /\ sm_pc = "input"
    /\ context = <<>>

\* _run_round, line 99, in the round that follows the stored ones.
BuildRoundContext ==
    /\ sm_pc = "input"
    /\ context' = build_round_context(sm_debate, Len(sm_debate.rounds) + 1)
    /\ sm_pc' = "applied"
    /\ UNCHANGED <<sm_debate, sm_provider, sm_result, fn_vars, parse_vars, bus_vars, api_vars>>
    /\ UNCHANGED <<council_vars, failures, engine_vars, pc, outcome, running,
                   stored, task_debate, cancel_vars>>

NextContext == BuildRoundContext

SpecContext == InitContext /\ [][NextContext]_vars

\* ------------------------------------------- the round after the streams
\* _run_round lines 136-169, run() line 64 and line 99 of the next
\* _run_round: the vote phase fills in the tally t, the round is appended to
\* debate.rounds with the responses that were collected, and the context of
\* the next round is built from the stored rounds.
NextRoundContext(t) ==
    /\ round_pc = "collected"
    /\ context = <<>>
    /\ LET done == [DebateRound(1) EXCEPT !.responses = round_responses,
                                           !.vote_summary = t]
       IN context' = build_round_context([topic |-> "topic A", rounds |-> <<done>>], 2)
    /\ UNCHANGED <<sm_debate, sm_provider, sm_result, sm_pc>>
    /\ UNCHANGED <<event_callbacks, emitting, bus_log, round_vars, fn_vars, parse_vars>>
    /\ UNCHANGED <<council_vars, failures, engine_vars, pc, outcome, running,
                   stored, task_debate, cancel_vars, api_vars>>

NextBus ==
    \/ BeginRound
    \/ EmitThinking
    \/ \E a \in Agents, stop \in 0..NumHandlers : EmitChunk(a, stop)
    \/ \E a \in Agents, stop \in 0..NumHandlers : ResumeEmit(a, stop)
    \/ \E a \in Agents, o \in ResponseOutcomes, k \in 0..MaxToolCalls : StreamEnds(a, o, k)
    \/ CollectResponses
    \/ \E t \in UnanimousTallies : NextRoundContext(t)

SpecBus == InitBus /\ [][NextBus]_vars

\* ------------------------------------------- server start and start_debate
\* The tables as an earlier run of the server can have left them.  A row of
\* a debate that finished its loop has at least one round.
CouncilRows == {NoCouncil} \cup {[exists |-> TRUE, agents |-> n] : n \in 0..MaxMembers}
DebateRow(st, rs) ==
    [exists |-> TRUE, status |-> st, current_round |-> Len(rs), rounds |-> rs,
     summary |-> IF st \in {CONSENSUS_REACHED, ROUND_LIMIT_REACHED} THEN "text" ELSE NONE,
     error_message |-> IF st = ERROR THEN "error" ELSE NONE]
DebateRows ==
    {NoDebate}
    \cup {DebateRow(st, <<DebateRound(1)>>) : st \in {IN_PROGRESS} \cup TerminalStatus}
    \cup {DebateRow(st, <<>>) : st \in {IN_PROGRESS, CANCELLED, ERROR}}

\* Storage._mark_stuck_debates_error: UPDATE debates SET status = error,
\* error_message = ... WHERE status = in_progress.
mark_all_debates_error(rows) ==
    [d \in DebateIds |->
        IF rows[d].exists
        THEN [rows[d] EXCEPT !.status = ERROR,
                             !.error_message = "Interrupted by server restart"]
        ELSE rows[d]]
mark_stuck_debates_error(rows) ==
    [d \in DebateIds |->
        IF rows[d].exists /\ rows[d].status = IN_PROGRESS
        THEN [rows[d] EXCEPT !.status = ERROR,
                             !.error_message = "Interrupted by server restart"]
        ELSE rows[d]]

\* start_debate, lines 55-63: 404 without the council, 400 with fewer than
\* 2 agents, otherwise the request goes on (200).
start_debate_status_nonempty(council) ==
    IF ~council.exists THEN 404 ELSE IF council.agents < 1 THEN 400 ELSE 200
start_debate_status(council) ==
    IF ~council.exists THEN 404 ELSE IF council.agents < 2 THEN 400 ELSE 200

InitApi ==
    /\ RunIdle
    /\ FnIdle
    /\ ParseIdle
    /\ BusIdle
    /\ SummaryIdle
    /\ db_councils \in [CouncilIds -> CouncilRows]
    /\ db_debates \in [DebateIds -> DebateRows]
    /\ running_debates = {}
    /\ server_up = FALSE
    /\ http_response = NoResponse

\* lifespan startup of main.py with the SQLite storage: Storage.initialize.
\* The new process has no task.
StorageInitialize ==
    /\ ~server_up
    /\ db_debates' = mark_stuck_debates_error(db_debates)
    /\ server_up' = TRUE
    /\ UNCHANGED <<db_councils, running_debates, http_response>>
    /\ UNCHANGED <<fn_vars, parse_vars, bus_vars, sm_vars>>
    /\ UNCHANGED <<council_vars, failures, engine_vars, pc, outcome, running,
                   stored, task_debate, cancel_vars>>

\* start_debate for council c: rejected, or the debate of a fresh id is
\* created by DebateEngine.__init__ (IN_PROGRESS, no round), saved, and its
\* task registered.
StartDebateRequest(c) ==
    /\ server_up
    /\ LET code == start_debate_status(db_councils[c])
       IN IF code = 200
          THEN \E d \in DebateIds :
                   /\ ~db_debates[d].exists
                   /\ db_debates' = [db_debates EXCEPT ![d] = DebateRow(IN_PROGRESS, <<>>)]
                   /\ running_debates' = running_debates \cup {d}
                   /\ http_response' = [status_code |-> 200, council_id |-> c,
                                        debate_id |-> d]
          ELSE /\ http_response' = [status_code |-> code, council_id |-> c,
                                    debate_id |-> 0]
               /\ UNCHANGED <<db_debates, running_debates>>
    /\ UNCHANGED <<db_councils, server_up>>
    /\ UNCHANGED <<fn_vars, parse_vars, bus_vars, sm_vars>>
    /\ UNCHANGED <<council_vars, failures, engine_vars, pc, outcome, running,
                   stored, task_debate, cancel_vars>>

\* _run_debate_task of debate d comes to its end: the final record is saved
\* and the task removed from _running_debates.
TaskEnds(d, st) ==
    /\ server_up
    /\ d \in running_debates
    /\ db_debates' = [db_debates EXCEPT ![d] = DebateRow(st, <<DebateRound(1)>>)]
    /\ running_debates' = running_debates \ {d}
    /\ UNCHANGED <<db_councils, server_up, http_response>>
    /\ UNCHANGED <<fn_vars, parse_vars, bus_vars, sm_vars>>
    /\ UNCHANGED <<council_vars, failures, engine_vars, pc, outcome, running,
                   stored, task_debate, cancel_vars>>

\* The server process ends, and with it every task; the tables stay.
ServerStop ==
    /\ server_up
    /\ server_up' = FALSE
    /\ running_debates' = {}
    /\ http_response' = NoResponse
    /\ UNCHANGED <<db_councils, db_debates>>
    /\ UNCHANGED <<fn_vars, parse_vars, bus_vars, sm_vars>>
    /\ UNCHANGED <<council_vars, failures, engine_vars, pc, outcome, running,
                   stored, task_debate, cancel_vars>>

NextApi ==
    \/ StorageInitialize
    \/ \E c \in CouncilIds : StartDebateRequest(c)
    \/ \E d \in DebateIds, st \in {CONSENSUS_REACHED, ROUND_LIMIT_REACHED, ERROR} :
           TaskEnds(d, st)
    \/ ServerStop

SpecApi == InitApi /\ [][NextApi]_vars

\* The steps of the background task, and of a cancel request once it has
\* read the debate.
TaskNext ==
    \/ \E sub \in Subscriber : TaskStart(sub)
    \/ \E sub \in Subscriber : RoundStart(sub)
    \/ \E a \in Agents, o \in ResponseOutcomes : ResponseSettles(a, o)
    \/ \E sub \in Subscriber : ProcessResponses(sub)
    \/ \E a \in Agents, o \in VoteOutcomes : VoteSettles(a, o)
    \/ \E sub \in Subscriber : ProcessVotes(sub)
    \/ \E res \in Subscriber : GenerateSummary(res)
    \/ \E sub \in Subscriber : EmitDebateComplete(sub)
    \/ SaveResult
    \/ ExceptGet
    \/ ExceptSave
CancelNext == CancelApply \/ CancelSave

\* The event loop runs every task that can run: member calls settle (each is
\* bounded by wait_for), subscribers and storage return.
FairSpec == Spec /\ WF_vars(TaskNext) /\ WF_vars(CancelNext)

\* ================================================================ claims
\* The last stored round, and whether the gather slots still describe it
\* (they are reset when the next round starts).
LastRound == rounds[Len(rounds)]
LastRoundDone == Len(rounds) > 0 /\ LastRound.round_number = current_round
Settled == VoteType \cup {"ok", EXC}
TallySum(r) == r.vote_summary.agree + r.vote_summary.disagree + r.vote_summary.abstain
ResponseIds(r) == [i \in 1..Len(r.responses) |-> r.responses[i].agent_id]
NoConsensusRound == \A i \in 1..Len(rounds) : ~rounds[i].consensus_reached

\* ---------------------------------------------------------------- C1
\* C1: when member calls settle and subscribers and storage return, the run
\* task comes to an end; no run executes more than max_rounds rounds; when
\* run() has returned or raised, the engine's record has a terminal status;
\* and when the task is over and no cancel request is pending, the stored
\* record (the one callers read) has a terminal status.
RunFinished == outcome \in {"returned", "raised"}
TaskOver == pc = "done" /\ cancel_pc \notin {"got", "save"}
C1_Safety ==
    /\ Len(rounds) <= max_rounds
    /\ current_round <= max_rounds
    /\ RunFinished => status \in TerminalStatus
    /\ TaskOver => stored.status \in TerminalStatus
C1_RunTerminates == [] C1_Safety /\ (pc = "created" ~> pc = "done")
C1_Witness ==
    /\ pc = "done"
    /\ outcome = "returned"
    /\ max_rounds = MaxBudget
    /\ Len(rounds) = max_rounds
    /\ status = ROUND_LIMIT_REACHED
    /\ stored.status = ROUND_LIMIT_REACHED

\* ---------------------------------------------------------------- C2
\* C2: once the status of the engine's record or of the stored record is
\* terminal, no step changes it.
C2_TerminalStatusNeverChanges ==
    [][ /\ status \in TerminalStatus => status' = status
        /\ stored.status \in TerminalStatus => stored'.status = stored.status ]_vars

\* ---------------------------------------------------------------- C3
\* C3: a round with consensus_reached is the last stored round and no round
\* is started after it; appending such a round sets CONSENSUS_REACHED.
C3_Inv ==
    \A i \in 1..Len(rounds) :
        rounds[i].consensus_reached =>
            /\ i = Len(rounds)
            /\ current_round = i
            /\ pc \notin {"loop", "responses", "votes"}
            /\ outcome # "raised" => status = CONSENSUS_REACHED
C3_Step ==
    /\ (Len(rounds') > Len(rounds) /\ rounds'[Len(rounds')].consensus_reached)
           => status' = CONSENSUS_REACHED /\ pc' = "summary"
    /\ (Len(rounds) > 0 /\ LastRound.consensus_reached)
           => rounds' = rounds /\ current_round' = current_round
C3_StopsAtFirstConsensus == [] C3_Inv /\ [][C3_Step]_vars
C3_Witness ==
    /\ threshold = <<4, 5>>
    /\ max_rounds = MaxBudget
    /\ outcome = "returned"
    /\ Len(rounds) = 1
    /\ rounds[1].vote_summary.agree = NumAgents
    /\ status = CONSENSUS_REACHED

\* ---------------------------------------------------------------- C4
\* C4: ROUND_LIMIT_REACHED is set only with max_rounds stored rounds none of
\* which reached consensus; and a run whose loop has exited (and that
\* returns) without a consensus round has max_rounds rounds and that status.
LoopExited == pc \in {"summary", "complete", "save"} \/ outcome = "returned"
C4_RoundLimit ==
    /\ status = ROUND_LIMIT_REACHED =>
           /\ Len(rounds) = max_rounds
           /\ current_round = max_rounds
           /\ NoConsensusRound
    /\ (LoopExited /\ NoConsensusRound) =>
           /\ Len(rounds) = max_rounds
           /\ status = ROUND_LIMIT_REACHED
C4_Witness ==
    /\ outcome = "returned"
    /\ max_rounds = MaxBudget
    /\ Len(rounds) = MaxBudget
    /\ \A i \in 1..Len(rounds) : rounds[i].vote_summary.disagree = NumAgents
    /\ status = ROUND_LIMIT_REACHED

\* ---------------------------------------------------------------- C5
\* C5: _check_consensus returns true iff at least one vote was cast and
\* agree / (agree + disagree + abstain) >= threshold; abstentions count in
\* the denominator only.
FnTotal == fn_summary.agree + fn_summary.disagree + fn_summary.abstain
C5_CheckConsensus ==
    fn_pc = "applied" =>
        /\ fn_result = (FnTotal > 0 /\ fn_summary.agree * fn_threshold[2]
                                         >= fn_threshold[1] * FnTotal)
        /\ (fn_summary = [agree |-> 4, disagree |-> 1, abstain |-> 0]
                /\ fn_threshold = <<4, 5>>) => fn_result
        /\ (fn_summary = [agree |-> 1, disagree |-> 1, abstain |-> 0]
                /\ fn_threshold = <<4, 5>>) => ~fn_result
        /\ (fn_summary = [agree |-> 1, disagree |-> 0, abstain |-> 1]
                /\ fn_threshold = <<4, 5>>) => ~fn_result
C5_Witness ==
    /\ fn_pc = "applied"
    /\ fn_summary = [agree |-> 4, disagree |-> 1, abstain |-> 0]
    /\ fn_threshold = <<4, 5>>
    /\ fn_result

\* ---------------------------------------------------------------- C6
\* C6: a round in which no vote was cast has the all-zero tally and no
\* consensus, whatever the threshold, and does not end the run with
\* CONSENSUS_REACHED.
C6_EmptyRoundNoConsensus ==
    /\ \A i \in 1..Len(rounds) :
           (\A a \in Agents : rounds[i].votes[a] = NONE) =>
               /\ rounds[i].vote_summary = NoSummary
               /\ ~rounds[i].consensus_reached
    /\ (LastRoundDone /\ \A a \in Agents : vote_results[a] = EXC) =>
           /\ LastRound.vote_summary = NoSummary
           /\ ~LastRound.consensus_reached
           /\ status # CONSENSUS_REACHED
C6_Witness ==
    /\ LastRoundDone
    /\ \A a \in Agents : vote_results[a] = EXC
    /\ threshold = <<0, 1>>
    /\ pc \in {"loop", "summary"}

\* ---------------------------------------------------------------- C7
\* C7: the three counts of a completed round add up to the number of members
\* whose vote call succeeded; a failed vote call is in no count and has no
\* entry; a member whose response failed but whose vote succeeded counts.
C7_TallyCountsCastVotes ==
    /\ LastRoundDone =>
           /\ TallySum(LastRound)
                  = Cardinality({a \in Agents : vote_results[a] \in VoteType})
           /\ \A v \in VoteType :
                  LastRound.vote_summary[v]
                      = Cardinality({a \in Agents : vote_results[a] = v})
           /\ \A a \in Agents : vote_results[a] = EXC => LastRound.votes[a] = NONE
           /\ \A a \in Agents :
                  (responses[a] = EXC /\ vote_results[a] \in VoteType)
                      => LastRound.votes[a] = vote_results[a]
    /\ \A i \in 1..Len(rounds) :
           TallySum(rounds[i])
               = Cardinality({a \in Agents : rounds[i].votes[a] # NONE})
C7_Witness ==
    /\ LastRoundDone
    /\ \E a, b \in Agents :
           /\ responses[a] = EXC
           /\ vote_results[a] \in VoteType
           /\ vote_results[b] = EXC
    /\ TallySum(LastRound) = NumAgents - 1

\* ---------------------------------------------------------------- C8
\* C8: the stored responses of a round are those of the members whose
\* response call succeeded, in panel order; a failed call changes no sibling
\* slot, does not end the round or the run, and the round goes on to the
\* vote phase.
RespondedOk == {a \in Agents : responses[a] = "ok"}
C8_Inv ==
    /\ (pc = "votes" \/ LastRoundDone) =>
           ResponseIds(round_result) = InPanelOrder(RespondedOk, 1)
    /\ LastRoundDone => ResponseIds(LastRound) = InPanelOrder(RespondedOk, 1)
    /\ error_message # "member"
C8_Step ==
    /\ \A a \in Agents :
           (responses[a] = RUNNING /\ responses'[a] = EXC) =>
               /\ \A b \in Agents \ {a} : responses'[b] = responses[b]
               /\ pc' = pc
               /\ status' = status
    /\ (pc = "responses" /\ pc' # "responses") =>
           \/ pc' = "votes"
           \/ pc' = "done" /\ outcome' = "cancelled"
           \/ pc' = "except_get" /\ error_message' = "subscriber"
C9_Inv ==
    /\ LastRoundDone =>
           \A a \in Agents :
               /\ vote_results[a] = EXC =>
                      LastRound.votes[a] = NONE /\ a \notin vote_events
               /\ vote_results[a] \in VoteType =>
                      LastRound.votes[a] = vote_results[a] /\ a \in vote_events
    /\ error_message # "member"
C9_Step ==
    /\ \A a \in Agents :
           (vote_results[a] = RUNNING /\ vote_results'[a] = EXC) =>
               /\ \A b \in Agents \ {a} : vote_results'[b] = vote_results[b]
               /\ pc' = pc
               /\ status' = status
    /\ (pc = "votes" /\ pc' # "votes") =>
           \/ pc' \in {"loop", "summary"} /\ Len(rounds') = Len(rounds) + 1
           \/ pc' = "done" /\ outcome' = "cancelled"
           \/ pc' = "except_get" /\ error_message' = "subscriber"
C9_VoteFailureIsolated == [] C9_Inv /\ [][C9_Step]_vars
C9_Witness ==
    /\ LastRoundDone
    /\ \E a, b \in Agents : vote_results[a] = EXC /\ vote_results[b] \in VoteType
    /\ status \in {IN_PROGRESS, CONSENSUS_REACHED, ROUND_LIMIT_REACHED}
    /\ error_message = NONE

\* ---------------------------------------------------------------- C10
\* C10: a vote call is started only when every response call of the round
\* has settled, and the round is tallied only when every vote call has
\* settled.
C10_PhasesInOrder ==
    /\ (\E a \in Agents : vote_results[a] # IDLE) =>
           \A a \in Agents : responses[a] \in Settled
    /\ LastRoundDone => \A a \in Agents : vote_results[a] \in Settled
    /\ (round_result.vote_summary # NoSummary \/ round_result.consensus_reached) =>
           \A a \in Agents : vote_results[a] \in Settled
C10_Witness ==
    /\ pc = "votes"
    /\ \E a, b, c \in Agents :
           /\ responses[a] = EXC
           /\ vote_results[b] = RUNNING
           /\ vote_results[c] \in VoteType

\* ---------------------------------------------------------------- C11
\* C11: for every reply with a VOTE: marker, the parsed vote is DISAGREE if
\* the upper-cased text between the first VOTE: marker and the next newline
\* contains DISAGREE, AGREE if it contains AGREE and not DISAGREE, ABSTAIN
\* otherwise; "VOTE: DISAGREE", newline, "REASONING: ..." parses to DISAGREE.
C11_Line == upper(split_0(after(response_text, find(response_text, VOTE_MARK)), NEWLINE))
C11_DisagreeBeforeAgree ==
    (parse_pc = "parsed" /\ str_in(VOTE_MARK, response_text)) =>
        /\ parsed_vote = IF str_in("DISAGREE", C11_Line) THEN DISAGREE
                         ELSE IF str_in("AGREE", C11_Line) THEN AGREE
                         ELSE ABSTAIN
        /\ response_text = <<VOTE_MARK, "DISAGREE", NEWLINE, REASONING_MARK, "x">>
               => parsed_vote = DISAGREE

\* ---------------------------------------------------------------- C12
\* C12 as stated: a reply without a VOTE: marker parses to ABSTAIN and its
\* rationale is the full raw reply.
C12_NoMarkerFullText ==
    (parse_pc = "parsed" /\ ~str_in(VOTE_MARK, response_text)) =>
        /\ parsed_vote = ABSTAIN
        /\ parsed_reasoning = response_text
\* C12 amended: a reply without a VOTE: marker parses to ABSTAIN; its
\* rationale is the full raw reply when it has no REASONING: marker either,
\* and the trimmed text after the marker when it has exactly one.
C12_OneReasoningMark ==
    Cardinality({i \in 1..Len(response_text) : response_text[i] = REASONING_MARK}) = 1
C12_NoMarkerAbstains ==
    (parse_pc = "parsed" /\ ~str_in(VOTE_MARK, response_text)) =>
        /\ parsed_vote = ABSTAIN
        /\ ~str_in(REASONING_MARK, response_text)
               => parsed_reasoning = response_text
        /\ C12_OneReasoningMark
               => parsed_reasoning
                      = strip(after(response_text, find(response_text, REASONING_MARK)))
C12_Witness ==
    /\ parse_pc = "parsed"
    /\ response_text = <<" ", "x", " ", "agree", NEWLINE>>
    /\ parsed_vote = ABSTAIN
    /\ parsed_reasoning = response_text

\* ---------------------------------------------------------------- C13
\* C13: with a REASONING: marker the rationale is everything that follows
\* the (first) marker, trimmed, also when the marker occurs more than once;
\* without one it is the entire raw reply.
C13_ReasoningAfterMarker ==
    parse_pc = "parsed" =>
        parsed_reasoning =
            IF str_in(REASONING_MARK, response_text)
            THEN strip(after(response_text, find(response_text, REASONING_MARK)))
            ELSE response_text

\* ---------------------------------------------------------------- C14
\* C14: an exception raised in the round loop outside the member calls (here
\* by a subscriber handling a round-level event) ends run() with status
\* ERROR and an error description in the engine's record and is re-raised
\* into the task's except block; the task then stores status ERROR with the
\* description (unless a cancel request intervenes).
C14_RoundLevelRaise ==
    \/ RoundStart("raise")
    \/ ProcessResponses("raise")
    \/ ProcessVotes("raise")
C14_Step ==
    /\ C14_RoundLevelRaise =>
           /\ status' = ERROR
           /\ error_message' # NONE
           /\ outcome' = "raised"
           /\ pc' = "except_get"
    /\ (pc = "except_save" /\ pc' = "done" /\ cancel_pc' = cancel_pc) =>
           /\ stored'.status = ERROR
           /\ stored'.error_message = error_message
C14_Inv ==
    /\ outcome = "raised" => status = ERROR /\ error_message # NONE
    /\ pc \in {"except_get", "except_save"} => outcome = "raised"
    /\ (pc = "done" /\ outcome = "raised" /\ cancel_pc = "idle") =>
           /\ stored.status = ERROR
           /\ stored.error_message # NONE
C15_SummaryFailureKeepsStatus ==
    [][ GenerateSummary("raise") =>
            /\ status' = status
            /\ outcome' # "raised" ]_vars

\* ---------------------------------------------------------------- C16
\* C16: once cancel_debate has cancelled an in-flight run, the task is over
\* and the engine starts no further round and writes nothing more; when the
\* request has returned, the stored status is CANCELLED and stays so.  A
\* cancel request for a debate that is not stored reports not-found and
\* changes nothing.
C16_Inv ==
    /\ outcome = "cancelled" =>
           /\ pc = "done"
           /\ ~running
           /\ cancel_pc \in {"save", "done"}
           /\ cancel_local.status = CANCELLED
    /\ (outcome = "cancelled" /\ cancel_pc = "done") => stored.status = CANCELLED
C16_Step ==
    /\ outcome = "cancelled" => UNCHANGED <<engine_vars, pc, outcome, running>>
    /\ (cancel_pc = "idle" /\ ~stored.exists) =>
           \/ cancel_pc' = "idle"
           \/ /\ cancel_pc' = "not_found"
              /\ UNCHANGED <<engine_vars, pc, outcome, running, stored>>
    /\ cancel_pc = "not_found" => cancel_pc' = "not_found"
C16_CancelledStaysCancelled == [] C16_Inv /\ [][C16_Step]_vars
C16_Witness ==
    /\ outcome = "cancelled"
    /\ cancel_pc = "done"
    /\ stored.status = CANCELLED
    /\ status = IN_PROGRESS
    /\ current_round = 2
    /\ \E a \in Agents : responses[a] = RUNNING

\* ---------------------------------------------------------------- C17
\* C17: after an in-flight run was cancelled, the record callers read holds
\* every round the run had appended when it was cancelled.
C17_CancelKeepsRounds ==
    (outcome = "cancelled" /\ cancel_pc = "done") => stored.rounds = rounds

\* ---------------------------------------------------------------- C18
\* C18: while the run is in flight the record callers read has status
\* IN_PROGRESS and exactly the rounds completed so far; after the run it has
\* a terminal status and, for ERROR, the description.
C18_QuerySeesProgress ==
    /\ (pc \in RunPcs /\ cancel_pc = "idle") =>
           /\ stored.status = IN_PROGRESS
           /\ stored.rounds = rounds
    /\ (pc = "done" /\ cancel_pc = "idle") =>
           /\ stored.status \in TerminalStatus
           /\ stored.status = ERROR => stored.error_message # NONE

\* ---------------------------------------------------------------- C19
\* C19: for every emitted event every callback is called exactly once, in
\* registration order, and all callbacks of one event have returned before
\* any callback is called for another event, also when the events are the
\* chunk events of concurrently streaming members.
C19_Event(e) == <<e.agent_id, e.chunk>>
C19_Calls(a, n) ==
    SelectSeq(bus_log, LAMBDA e : e.op = "call" /\ C19_Event(e) = <<a, n>>)
C19_Emitted(a, n) == n <= emitting[a].chunks /\ (n = emitting[a].chunks => emitting[a].awaiting = 0)
C19_HandlersRunPerEvent ==
    /\ \A a \in Agents, n \in 1..MaxChunks :
           /\ \A i \in 1..Len(C19_Calls(a, n)) : C19_Calls(a, n)[i].callback = i
           /\ C19_Emitted(a, n) => Len(C19_Calls(a, n)) = NumHandlers
    /\ \A i, j \in 1..Len(bus_log) :
           (i < j /\ bus_log[i].op = "call" /\ bus_log[j].op = "call"
                  /\ C19_Event(bus_log[i]) # C19_Event(bus_log[j])) =>
               \A k \in Handlers :
                   \E r \in 1..(j - 1) :
                       bus_log[r] = ret(bus_log[i].agent_id, bus_log[i].chunk, k)

\* ---------------------------------------------------------------- C20
\* C20: at most one round is in flight; round_start(n+1) is emitted only
\* after round_complete(n); an event tagged with round n is emitted after
\* round_start(n) and before round_complete(n); once round n has completed
\* no member call is still running or emitting.
C20_RoundTagged ==
    {"round_start", "agent_thinking", "agent_response_chunk", "agent_response", "vote"}
C20_NoCallRunning ==
    \A a \in Agents : responses[a] # RUNNING /\ vote_results[a] # RUNNING
C20_Inv ==
    /\ Len(rounds) <= current_round
    /\ current_round <= Len(rounds) + 1
    /\ last_event.type \in C20_RoundTagged =>
           /\ last_event.round = current_round
           /\ Len(rounds) < last_event.round
    /\ (last_event.type = "round_complete" /\ outcome # "raised") =>
           Len(rounds) = last_event.round
    /\ Len(rounds) = current_round => C20_NoCallRunning
C20_Step ==
    /\ current_round' # current_round =>
           /\ current_round' = current_round + 1
           /\ Len(rounds) = current_round
           /\ C20_NoCallRunning
           /\ last_event.type \in {"debate_start", "round_complete"}
           /\ last_event' \in {DebateUpdate("round_start", current_round'),
                               DebateUpdate("agent_thinking", current_round')}
    /\ Len(rounds') # Len(rounds) =>
           /\ last_event' = DebateUpdate("round_complete", current_round)
           /\ \A a \in Agents : responses[a] \in Settled /\ vote_results[a] \in Settled
    /\ (last_event' # last_event /\ last_event'.type = "agent_response_chunk") =>
           /\ pc = "responses"
           /\ last_event'.round = current_round
           /\ Len(rounds) < current_round
C20_RoundsNeverOverlap == [] C20_Inv /\ [][C20_Step]_vars
C20_Witness ==
    /\ current_round = 2
    /\ Len(rounds) = 1
    /\ last_event = DebateUpdate("agent_response_chunk", 2)
    /\ \E a, b \in Agents : responses[a] = RUNNING /\ responses[b] = "ok"

\* ---------------------------------------------------------------- C22
\* C22: in every reachable state of a run current_round is at most the
\* council's max_rounds and at least the number of stored rounds, in the
\* engine's debate as in the record that was saved from it.
C22_CurrentRoundBounded ==
    /\ current_round <= max_rounds
    /\ Len(rounds) <= current_round
    /\ stored.current_round <= max_rounds
    /\ Len(stored.rounds) <= stored.current_round
C22_Witness ==
    /\ max_rounds = MaxBudget
    /\ current_round = max_rounds
    /\ Len(rounds) = max_rounds
    /\ stored.current_round = max_rounds
    /\ Len(stored.rounds) = max_rounds

\* ---------------------------------------------------------------- C23
\* C23: in every reachable state the i-th round of the round list has
\* round_number i, so the numbers are 1, 2, ..., k without gap or duplicate,
\* in the engine's debate as in the record that was saved from it.
C23_RoundNumbersContiguous ==
    /\ \A i \in 1..Len(rounds) : rounds[i].round_number = i
    /\ \A i \in 1..Len(stored.rounds) : stored.rounds[i].round_number = i
C23_Witness ==
    /\ Len(rounds) = MaxBudget
    /\ Len(stored.rounds) = MaxBudget
    /\ \A i \in 1..MaxBudget : ~rounds[i].consensus_reached \/ i = MaxBudget

\* ---------------------------------------------------------------- C21
\* C21: under every interleaving of the members' streams each
\* agent_response_chunk event of a member carries in full_content_so_far the
\* concatenation of that member's own chunks received so far and nothing of
\* another member; a member whose stream completes gets exactly one
\* agent_response event, after its last chunk event, whose content is the
\* concatenation of all its chunks and is the stored response's content.
\* (The round is one in which gather returned and no subscriber raised.)
EventsOf(event_type, a) ==
    {i \in 1..Len(emitted) : emitted[i].type = event_type /\ emitted[i].agent_id = a}
C21_ChunkEvents(a) ==
    SelectSeq(emitted, LAMBDA e : e.type = "agent_response_chunk" /\ e.agent_id = a)
C21_StreamedContent ==
    /\ \A a \in Agents :
           /\ Len(C21_ChunkEvents(a)) = emitting[a].chunks
           /\ \A n \in 1..Len(C21_ChunkEvents(a)) :
                  C21_ChunkEvents(a)[n].content = chunks_upto(a, n)
    /\ round_pc # "collected" => \A a \in Agents : EventsOf("agent_response", a) = {}
    /\ round_pc = "collected" =>
           \A a \in Agents :
               IF call_state[a] = "ok"
               THEN /\ Cardinality(EventsOf("agent_response", a)) = 1
                    /\ \A i \in EventsOf("agent_response", a) :
                           /\ emitted[i].content = chunks_upto(a, emitting[a].chunks)
                           /\ \A j \in EventsOf("agent_response_chunk", a) : j < i
                           /\ \E r \in 1..Len(round_responses) :
                                  /\ round_responses[r].agent_id = a
                                  /\ round_responses[r].content = emitted[i].content
               ELSE EventsOf("agent_response", a) = {}
C21_Witness ==
    /\ round_pc = "collected"
    /\ \A a \in Agents : call_state[a] = "ok" /\ emitting[a].chunks = MaxChunks
    /\ \E i, j, k \in 1..Len(emitted) :
           /\ i < j /\ j < k
           /\ emitted[i].type = "agent_response_chunk"
           /\ emitted[j].type = "agent_response_chunk"
           /\ emitted[k].type = "agent_response_chunk"
           /\ emitted[i].agent_id = emitted[k].agent_id
           /\ emitted[i].agent_id # emitted[j].agent_id

\* ---------------------------------------------------------------- C26
\* C26: when the provider call of a member raises or times out,
\* _stream_and_collect_response does not raise but returns a response of
\* that member with empty content: no response call ever ends with an
\* exception, and every member whose call has ended has a response.
C26_FailedCallReturnsEmpty ==
    /\ \A a \in Agents : call_state[a] # EXC
    /\ round_pc = "collected" =>
           \A a \in Agents : \E r \in 1..Len(round_responses) :
               round_responses[r].agent_id = a

\* ---------------------------------------------------------------- C27
\* C27: for a member whose provider made k tool calls for its response,
\* exactly k tool_call events are emitted in the round, each with the name,
\* the arguments and the result (cut to at most 503 characters) of the call.
C27_ToolCallEvents ==
    round_pc = "collected" =>
        \A a \in Agents :
            call_state[a] = "ok" => Cardinality(EventsOf("tool_call", a)) = tool_calls[a]

\* ---------------------------------------------------------------- C29
\* C29: in a round agent_thinking is emitted exactly once per member, in
\* panel order, after round_start and before any response call is started,
\* hence before every agent_response_chunk, also for the members whose call
\* fails later.
C29_Thinking == SelectSeq(emitted, LAMBDA e : e.type = "agent_thinking")
C29_CallStarted == \E a \in Agents : call_state[a] # IDLE
C29_ThinkingBeforeCalls ==
    /\ Len(C29_Thinking) = thinking_sent
    /\ thinking_sent <= NumAgents
    /\ \A i \in 1..Len(C29_Thinking) : C29_Thinking[i].agent_id = i
    /\ \A i \in 1..Len(emitted) :
           emitted[i].type = "agent_thinking" =>
               /\ emitted[1].type = "round_start"
               /\ i = emitted[i].agent_id + 1
    /\ C29_CallStarted =>
           /\ thinking_sent = NumAgents
           /\ \A a \in Agents : Cardinality(EventsOf("agent_thinking", a)) = 1
    /\ \A i \in 1..Len(emitted) :
           emitted[i].type \in {"agent_response_chunk", "agent_response"} =>
               i > NumAgents + 1
C29_Witness ==
    /\ round_pc = "collected"
    /\ \E a \in Agents : call_state[a] = EXC /\ EventsOf("agent_thinking", a) # {}
    /\ \E a \in Agents : EventsOf("agent_response_chunk", a) # {}

\* ---------------------------------------------------------------- C30
\* C30: whatever the order in which the response calls end, the round's
\* response list is the panel order restricted to the members whose call
\* succeeded, every response carries the id, name, role and provider of the
\* member that produced its content, and when all calls succeed there are
\* as many responses as members.
C30_Succeeded == InPanelOrder({a \in Agents : call_state[a] = "ok"}, 1)
C30_ResponsesInPanelOrder ==
    /\ round_pc # "collected" => round_responses = <<>>
    /\ round_pc = "collected" =>
           /\ Len(round_responses) = Len(C30_Succeeded)
           /\ \A i \in 1..Len(round_responses) :
                  LET a == C30_Succeeded[i]
                      r == round_responses[i]
                  IN /\ r.agent_id = AgentConfig(a).id
                     /\ r.agent_name = AgentConfig(a).name
                     /\ r.role = AgentConfig(a).role
                     /\ r.provider = AgentConfig(a).provider
                     /\ r.content = chunks_upto(a, emitting[a].chunks)
           /\ (\A a \in Agents : call_state[a] = "ok") =>
                  Len(round_responses) = NumAgents
C30_Witness ==
    /\ round_pc = "collected"
    /\ Len(round_responses) = NumAgents
    /\ completion_order # InPanelOrder(Agents, 1)
    /\ \A a \in Agents : emitting[a].chunks > 0

\* ---------------------------------------------------------------- C24
\* C24: without a provider for the moderator the summary is the fallback
\* text, determined by the debate alone, that contains the topic, the final
\* status and, in round order, one line with the agree, disagree and abstain
\* counts of every stored round; the pro and the against list are empty.
C24_RoundLines == SelectSeq(sm_result.summary, LAMBDA l : l[1] = "round")
C24_FallbackSummary ==
    (sm_pc = "applied" /\ ~sm_provider) =>
        /\ \E i \in 1..Len(sm_result.summary) :
               sm_result.summary[i] = <<"line", sm_debate.topic>>
        /\ \E i \in 1..Len(sm_result.summary) :
               sm_result.summary[i] = <<"line", sm_debate.status>>
        /\ Len(C24_RoundLines) = Len(sm_debate.rounds)
        /\ \A i \in 1..Len(C24_RoundLines) :
               C24_RoundLines[i] =
                   <<"round", i, sm_debate.rounds[i].vote_summary.agree,
                     sm_debate.rounds[i].vote_summary.disagree,
                     sm_debate.rounds[i].vote_summary.abstain>>
        /\ sm_result.pro_points = <<>>
        /\ sm_result.against_points = <<>>
C24_Witness ==
    /\ sm_pc = "applied"
    /\ ~sm_provider
    /\ Len(sm_debate.rounds) = MaxBudget
    /\ sm_debate.rounds[1].vote_summary # sm_debate.rounds[MaxBudget].vote_summary
    /\ Len(C24_RoundLines) = MaxBudget

\* ---------------------------------------------------------------- C25
\* C25: when the storage is initialized at server start every stored debate
\* that is IN_PROGRESS becomes ERROR with an error message and gets no task;
\* the debates of any other status and the rounds of all debates stay as
\* they are.
C25_Step ==
    (~server_up /\ server_up') =>
        /\ running_debates' = {}
        /\ \A d \in DebateIds :
               IF db_debates[d].exists /\ db_debates[d].status = IN_PROGRESS
               THEN /\ db_debates'[d].status = ERROR
                    /\ db_debates'[d].error_message \notin {NONE, ""}
                    /\ db_debates'[d].rounds = db_debates[d].rounds
                    /\ db_debates'[d].exists
               ELSE db_debates'[d] = db_debates[d]
C25_Inv ==
    server_up =>
        \A d \in DebateIds :
            (db_debates[d].exists /\ db_debates[d].status = IN_PROGRESS) =>
                d \in running_debates
C25_RestartMarksStuckDebates == [] C25_Inv /\ [][C25_Step]_vars
C25_Witness ==
    /\ server_up
    /\ running_debates = {}
    /\ \E d, e \in DebateIds :
           /\ db_debates[d].status = ERROR
           /\ db_debates[d].error_message = "Interrupted by server restart"
           /\ db_debates[d].rounds # <<>>
           /\ db_debates[e].status = CONSENSUS_REACHED

\* ---------------------------------------------------------------- C28
\* C28: no debate is created, stored or run for a council of fewer than 2
\* agents: start_debate on such a council is rejected with an error, on a
\* council that does not exist with not-found, and in both cases no debate
\* row is stored and no task is registered.
C28_Inv ==
    http_response.status_code # 0 =>
        LET council == db_councils[http_response.council_id]
        IN /\ ~council.exists <=> http_response.status_code = 404
           /\ (council.exists /\ council.agents < 2) <=> http_response.status_code = 400
           /\ http_response.status_code \in {200, 400, 404}
C28_Step ==
    /\ (\E d \in DebateIds :
            \/ ~db_debates[d].exists /\ db_debates'[d].exists
            \/ d \notin running_debates /\ d \in running_debates') =>
           /\ http_response'.status_code = 200
           /\ db_councils[http_response'.council_id].exists
           /\ db_councils[http_response'.council_id].agents >= 2
    /\ (http_response' # http_response /\ http_response'.status_code \in {400, 404}) =>
           /\ db_debates' = db_debates
           /\ running_debates' = running_debates
C28_SmallCouncilRejected == [] C28_Inv /\ [][C28_Step]_vars
C28_Witness ==
    /\ http_response.status_code = 400
    /\ db_councils[http_response.council_id].agents = 1
    /\ \A d \in DebateIds : ~db_debates[d].exists
    /\ running_debates = {}

\* ---------------------------------------------------------------- C31
\* C31: in every completed round the tally counts the entries of the vote
\* map by type, and the vote and the reasoning of a member are attached to
\* that member's own response of the round and to no other; the vote of a
\* member without a response is in the map and the tally only.
C31_RoundOk(r) ==
    /\ r.vote_summary.agree = Cardinality({a \in Agents : r.votes[a] = AGREE})
    /\ r.vote_summary.disagree = Cardinality({a \in Agents : r.votes[a] = DISAGREE})
    /\ r.vote_summary.abstain = Cardinality({a \in Agents : r.votes[a] = ABSTAIN})
    /\ \A j \in 1..Len(r.responses) :
           LET resp == r.responses[j]
           IN /\ resp.vote = r.votes[resp.agent_id]
              /\ resp.reasoning =
                     IF r.votes[resp.agent_id] = NONE THEN 0
                     ELSE vote_reasoning(resp.agent_id)
C31_TallyAndAttachment ==
    /\ \A i \in 1..Len(rounds) : C31_RoundOk(rounds[i])
    /\ \A i \in 1..Len(stored.rounds) : C31_RoundOk(stored.rounds[i])
C31_Witness ==
    /\ Len(stored.rounds) > 0
    /\ LET r == stored.rounds[1]
       IN /\ Len(r.responses) = 1
          /\ r.responses[1].agent_id = NumAgents
          /\ r.responses[1].vote = DISAGREE
          /\ r.votes[1] = AGREE
          /\ r.vote_summary.agree = 1

\* ---------------------------------------------------------------- C32
\* C32: the context of round 1 holds the topic and the first-round marker and
\* nothing of any round; the context of a round n >= 2 holds the topic and,
\* for every stored round 1..n-1 in round order, its responses in stored
\* order followed by its tally.
C32_Responses == SelectSeq(context, LAMBDA part : part[1] = "response")
C32_Votes == SelectSeq(context, LAMBDA part : part[1] = "votes")
C32_Position(part) == CHOOSE i \in 1..Len(context) : context[i] = part
RECURSIVE C32_AllResponses(_, _)
C32_AllResponses(rs, from) ==
    IF from > Len(rs) THEN <<>>
    ELSE rs[from].responses \o C32_AllResponses(rs, from + 1)
C32_ContextOfRound ==
    sm_pc = "applied" =>
        LET rs == sm_debate.rounds
            all == C32_AllResponses(rs, 1)
        IN IF rs = <<>>
           THEN context = <<<<"first round", sm_debate.topic>>>>
           ELSE /\ context[1] = <<"topic", sm_debate.topic>>
                /\ Len(C32_Responses) = Len(all)
                /\ \A j \in 1..Len(all) :
                       C32_Responses[j] =
                           <<"response", all[j].agent_name, all[j].role, all[j].content>>
                /\ Len(C32_Votes) = Len(rs)
                /\ \A k \in 1..Len(rs) :
                       /\ C32_Votes[k] = <<"votes", rs[k].vote_summary>>
                       /\ \A j \in 1..Len(rs[k].responses) :
                              LET r == rs[k].responses[j]
                                  at == C32_Position(<<"response", r.agent_name, r.role,
                                                       r.content>>)
                              IN /\ at > C32_Position(<<"round", k>>)
                                 /\ \A i \in (at + 1)..Len(context) :
                                        context[i][1] = "votes" =>
                                            \E m \in k..Len(rs) :
                                                context[i] = <<"votes", rs[m].vote_summary>>
                                 /\ \E i \in (at + 1)..Len(context) :
                                        /\ context[i] = <<"votes", rs[k].vote_summary>>
                                        /\ \A q \in (at + 1)..(i - 1) :
                                               context[q][1] = "response"
                       /\ k < Len(rs) =>
                              C32_Position(<<"round", k>>) < C32_Position(<<"round", k + 1>>)
C32_Witness ==
    /\ sm_pc = "applied"
    /\ Len(sm_debate.rounds) = MaxPrior
    /\ Len(sm_debate.rounds[1].responses) = NumAgents
    /\ Len(sm_debate.rounds[MaxPrior].responses) = 1
    /\ sm_debate.rounds[1].vote_summary # sm_debate.rounds[MaxPrior].vote_summary
    /\ Len(C32_Responses) >= NumAgents + 1

\* ---------------------------------------------------------------- C39
\* C39: under every interleaving of cancel_debate with the run task, once
\* the task has stored its final record the stored record keeps those rounds
\* and that summary, and the debate is registered in _running_debates only
\* while its task has not finished.
C39_FinalRecordStored ==
    /\ pc = "done"
    /\ outcome = "returned"
    /\ rounds # <<>>
    /\ stored.rounds = rounds
    /\ stored.summary = summary
C39_Step == C39_FinalRecordStored => (stored'.rounds = rounds /\ stored'.summary = summary)
C39_Registered == running => pc \notin {"no_debate", "done"}
C39_CancelKeepsResults == [] C39_Registered /\ [][C39_Step]_vars

\* ---------------------------------------------------------------- C36
\* C36: debate_start is the first event of a run; debate_complete is emitted
\* exactly once if and only if run() returns normally, is then the last
\* event, follows every round_complete and carries the status of the
\* returned debate, CONSENSUS_REACHED or ROUND_LIMIT_REACHED; a run that
\* ends in ERROR or is cancelled emits no debate_complete.
C36_Inv ==
    /\ last_event.type = "debate_complete" =>
           /\ status \in {CONSENSUS_REACHED, ROUND_LIMIT_REACHED}
           /\ outcome = "returned"
           /\ Len(rounds) = current_round
    /\ outcome = "returned" => last_event.type = "debate_complete"
C36_Step ==
    /\ (last_event = NoEvent /\ last_event' # NoEvent) => last_event'.type = "debate_start"
    /\ last_event.type = "debate_complete" => last_event' = last_event
C36_DebateCompleteIffReturned == [] C36_Inv /\ [][C36_Step]_vars

\* ---------------------------------------------------------------- C35
\* C35: all callbacks see the events in one order: if one callback is
\* called for an event before it is called for another event, then every
\* other callback that is called for both is called for them in that order,
\* also when callbacks are coroutines and the events are chunk events of
\* concurrently running member calls.
C35_CalledAt(a, n, k) == {i \in 1..Len(bus_log) : bus_log[i] = call(a, n, k)}
C35_SameOrderForAll ==
    \A a, b \in Agents, n, m \in 1..MaxChunks, h, k \in Handlers :
        \A i \in C35_CalledAt(a, n, h), j \in C35_CalledAt(b, m, h),
           p \in C35_CalledAt(a, n, k), q \in C35_CalledAt(b, m, k) :
            i < j => p < q

\* ---------------------------------------------------------------- C34
\* C34: for every reply, _parse_list returns the non-blank lines in their
\* order, each with one leading numbering or bullet marker removed, without
\* the lines that are blank or become blank once the marker is removed, and
\* only the first 5 of them.
C34_Markers == {"1.", "2.", "3.", "4.", "5.", "6.", "-", "*", BULLET}
C34_Unmarked(line) ==
    LET s == strip(line)
    IN IF s # <<>> /\ s[1] \in C34_Markers THEN strip(Tail(s)) ELSE s
C34_Expected(text) ==
    LET lines == split(text, NEWLINE)
        items == SelectSeq([i \in 1..Len(lines) |-> C34_Unmarked(lines[i])],
                           LAMBDA c : c # <<>>)
    IN [i \in 1..(IF Len(items) < 5 THEN Len(items) ELSE 5) |-> items[i]]
C34_MarkersRemoved == list_pc = "parsed" => points = C34_Expected(list_text)
\* The same for the markers "1." to "5.", "-", "*" only: a line that starts
\* with any other numbering keeps it.
C34_KnownMarkers == {prefixes[k] : k \in 1..Len(prefixes)}
C34_UnmarkedKnown(line) ==
    LET s == strip(line)
    IN IF s # <<>> /\ s[1] \in C34_KnownMarkers THEN strip(Tail(s)) ELSE s
C34_ExpectedKnown(text) ==
    LET lines == split(text, NEWLINE)
        items == SelectSeq([i \in 1..Len(lines) |-> C34_UnmarkedKnown(lines[i])],
                           LAMBDA c : c # <<>>)
    IN [i \in 1..(IF Len(items) < 5 THEN Len(items) ELSE 5) |-> items[i]]
C34_KnownMarkersRemoved == list_pc = "parsed" => points = C34_ExpectedKnown(list_text)
C34_Capped ==
    /\ list_pc = "parsed"
    /\ Len(points) = 5
    /\ Len(split(list_text, NEWLINE)) = MaxLines

\* ---------------------------------------------------------------- C33
\* C33: a run that returns has called the summarizer exactly once, and no
\* run calls it more than once; it is called only after the round loop has
\* exited and the status was set to CONSENSUS_REACHED or ROUND_LIMIT_REACHED;
\* the completion timestamp is set only once the summary and both argument
\* lists are populated, and never on a run that ends in ERROR in the loop.
C33_LoopExited ==
    /\ status \in {CONSENSUS_REACHED, ROUND_LIMIT_REACHED}
    /\ Len(rounds) = current_round
    /\ status = CONSENSUS_REACHED \/ current_round >= max_rounds
C33_Inv ==
    /\ summarizer_calls <= 1
    /\ outcome = "returned" => summarizer_calls = 1
    /\ completed_at =>
           /\ summarizer_calls = 1
           /\ summary # NONE
           /\ pro_points # NONE
           /\ against_points # NONE
    /\ (status = ERROR /\ summarizer_calls = 0) => ~completed_at
C33_Step == summarizer_calls' # summarizer_calls => C33_LoopExited
C33_SummarizerOnceAfterLoop == [] C33_Inv /\ [][C33_Step]_vars
C33_Witness ==
    /\ pc = "done"
    /\ outcome = "returned"
    /\ summarizer_calls = 1
    /\ completed_at
    /\ pro_points = "points"
    /\ against_points = "points"
    /\ Len(rounds) = MaxBudget
\* A run that ended in ERROR inside the loop, without a timestamp.
C33_ErrorInLoop ==
    /\ pc = "done"
    /\ status = ERROR
    /\ summarizer_calls = 0
    /\ rounds # <<>>

\* ---------------------------------------------------------------- C37
\* C37: when a callback raises on a member's agent_response_chunk event,
\* that member's call fails and nothing else: the member gets no response in
\* the round, the other members' calls and the round go on.  When a callback
\* raises on any other event the run ends with status ERROR.  In both cases
\* the callbacks registered after the raising one are not called for the
\* event.
C37_Inv ==
    /\ delivery.raised_by # 0 =>
           \A h \in Handlers : h > delivery.raised_by => h \notin delivery.called
    /\ (delivery.raised_by # 0 /\ last_event.type # "agent_response_chunk") =>
           /\ status = ERROR
           /\ outcome = "raised"
           /\ error_message = "subscriber"
    /\ pc = "votes" =>
           \A a \in Agents :
               responses[a] = EXC =>
                   \A i \in 1..Len(round_result.responses) :
                       round_result.responses[i].agent_id # a
C37_Step ==
    (\E a \in Agents : StreamChunk(a, "raise")) =>
        /\ \E a \in Agents :
               /\ responses[a] = RUNNING
               /\ responses' = [responses EXCEPT ![a] = EXC]
        /\ status' = status
        /\ outcome' = outcome
        /\ pc' = pc
        /\ round_result' = round_result
        /\ rounds' = rounds
C37_CallbackExceptions == [] C37_Inv /\ [][C37_Step]_vars
\* A callback raised on a member's chunk; the other member's call returned
\* its response and the run is still in progress.
C37_Witness ==
    /\ pc = "responses"
    /\ status = IN_PROGRESS
    /\ last_event.type = "agent_response_chunk"
    /\ delivery.raised_by = 1
    /\ delivery.called = {1}
    /\ \E a, b \in Agents : responses[a] = EXC /\ responses[b] = "ok"
\* The round of such a member was completed and stored without its response.
C37_RoundGoesOn ==
    /\ pc = "done"
    /\ outcome = "returned"
    /\ failures = 1
    /\ providers = Agents
    /\ \E i \in 1..Len(rounds) : Len(rounds[i].responses) = NumAgents - 1

\* ---------------------------------------------------------------- C38
\* C38: when a member's stream fails or times out after chunks of it were
\* emitted, the partial text is dropped: the round gets no agent_response
\* event and no response of that member, the context of the next round holds
\* none of its chunks, and the member's vote call of the round is started
\* all the same.
C38_FailedAfterChunks(a) == call_state[a] = EXC /\ emitting[a].chunks > 0
C38_TextOf(a, text) == \E i \in 1..Len(text) : text[i] \in {chunk(a, n) : n \in 1..MaxChunks}
C38_PartialContentDiscarded ==
    \A a \in Agents :
        (C38_FailedAfterChunks(a) /\ round_pc = "collected") =>
            /\ EventsOf("agent_response", a) = {}
            /\ \A i \in 1..Len(round_responses) : round_responses[i].agent_id # a
            /\ a \in vote_calls
            /\ \A i \in 1..Len(context) :
                   context[i][1] = "response" => ~C38_TextOf(a, context[i][4])
\* One member failed after its first chunk, the other one answered, and the
\* context of the next round was built.
C38_Witness ==
    /\ round_pc = "collected"
    /\ \E a, b \in Agents :
           /\ C38_FailedAfterChunks(a)
           /\ call_state[b] = "ok"
           /\ emitting[b].chunks > 0
           /\ \E i \in 1..Len(context) :
                  context[i][1] = "response" /\ C38_TextOf(b, context[i][4])

====
